---- MODULE Spec2Model ----
(***************************************************************************)
(* Scoring and validation engine of the Lernenergie questionnaire          *)
(* (lernprofil/auswertung.py, version 0.2.1): the item taxonomy,           *)
(* validate_ratings, reverse_likert, classify_score, the dimension,        *)
(* chronotype and avoidance aggregations, check_response_quality and       *)
(* compute_profile.                                                        *)
(*                                                                         *)
(* Numbers.  Python computes scores as floats and rounds them with         *)
(* round(x, 1) / round(x, 2).  The model keeps every such number exact:    *)
(* a mean is the pair (sum, n), a rounded score is an integer number of    *)
(* tenths, a rounded mean an integer number of hundredths, rounded half    *)
(* to even as Python's round does on the exactly representable ties.       *)
(* A Python dict is a sequence of [code, value] entries with distinct      *)
(* codes, in insertion order.  An exception is a record of its type, the   *)
(* fixed part of its message (letters outside ASCII transliterated) and    *)
(* the item codes the message names.                                       *)
(***************************************************************************)
EXTENDS Integers, Sequences, FiniteSets, TLC

VARIABLES
  ratings,     \* the caller's rating dict (insertion-ordered)
  pc,          \* "build" while the caller fills the dict, "done" after a call
  op,          \* the engine function that was called ("" before the call)
  profile_id,  \* the profile_id argument of compute_profile
  outcome,     \* what the call did: a return value or a raised exception
  stages,      \* the engine functions entered by the call, in order
  edits,       \* number of caller edits made to the dict so far
  arg,         \* the argument of a call of reverse_likert or classify_score,
               \* or the line of the answer file at which the loader stopped
  earlier,     \* the caller's previous call, once it calls a second time
  csv_file,    \* the answer file given to load_ratings_from_csv
  orch,        \* the LernprofilOrchestrator object and its run_workflow call
  fs           \* the output directories below the working directory

io_vars == <<csv_file, orch, fs>>

vars == <<ratings, pc, op, profile_id, outcome, stages, edits, arg, earlier,
          csv_file, orch, fs>>

-----------------------------------------------------------------------------
(* Bounds of the model *)

MaxEdits == 2    \* caller edits applied to a base rating set
MaxInt == 6      \* largest integer rating a caller tries (smallest is 0)
MaxStep == 3     \* largest block length of the base patterns
MaxChanges == 1  \* rating changes applied to a base pattern in the scoring runs
MaxOver == 20    \* tenths by which a tried score leaves the range 0..100
MaxRepeatEdits == 3  \* caller edits made around two calls of compute_profile
MaxFileEdits == 2    \* rows added to or taken from a complete answer file
MaxSecondEdits == 1  \* ratings changed between two calls of compute_profile
MaxWorkflows == 2    \* calls of run_workflow on one orchestrator

-----------------------------------------------------------------------------
(* Domain model: auswertung.py lines 149-305 *)

VERSION == "0.2.1"

QUALITY_WARN_STRAIGHT == "Nur 1-2 verschiedene Antworten verwendet"
QUALITY_WARN_LOW_VAR == "Sehr geringe Antwortvariation"

\* The keys of DIMENSION_LABELS in dict order.
DimensionOrder ==
  <<"attention", "sensory", "social", "executive", "motivation", "regulation">>

DIMENSION_LABELS ==
  [d \in {DimensionOrder[i] : i \in DOMAIN DimensionOrder} |->
     CASE d = "attention"  -> "Aufmerksamkeitsarchitektur"
       [] d = "sensory"    -> "Sensorische Verarbeitung"
       [] d = "social"     -> "Soziale Energetik"
       [] d = "executive"  -> "Exekutive Funktionen & Strukturbeduerfnis"
       [] d = "motivation" -> "Motivationsarchitektur"
       [] d = "regulation" -> "Autonome Regulation / Stress & Vigilanz"]

\* Mutant: _i passes include and reverse to the wrong fields.
ItemDefinition_swapped(code, dim, include, reverse) ==
  [code |-> code, dimension_code |-> dim,
   include_in_main_scale |-> reverse, reverse_scored |-> include]

\* The frozen dataclass; facet is a descriptive label no computation reads.
ItemDefinition(code, dim, include, reverse) ==
  [code |-> code, dimension_code |-> dim,
   include_in_main_scale |-> include, reverse_scored |-> reverse]

\* The dict ITEM_DEFINITIONS in insertion order.
ITEM_DEFINITIONS ==
  <<
    ItemDefinition("A1", "attention", TRUE, FALSE),
    ItemDefinition("A2", "attention", TRUE, TRUE),
    ItemDefinition("A3", "attention", TRUE, FALSE),
    ItemDefinition("A4", "attention", TRUE, FALSE),
    ItemDefinition("A5", "attention", TRUE, TRUE),
    ItemDefinition("A6", "attention", TRUE, FALSE),
    ItemDefinition("A7", "attention", TRUE, FALSE),
    ItemDefinition("A8", "attention", FALSE, FALSE),
    ItemDefinition("A9", "attention", FALSE, FALSE),
    ItemDefinition("A10", "attention", TRUE, TRUE),
    ItemDefinition("A11", "attention", TRUE, FALSE),
    ItemDefinition("A12", "attention", TRUE, FALSE),
    ItemDefinition("A13", "attention", FALSE, FALSE),
    ItemDefinition("A14", "attention", FALSE, FALSE),
    ItemDefinition("A15", "attention", FALSE, FALSE),
    ItemDefinition("A16", "attention", FALSE, FALSE),
    ItemDefinition("S1", "sensory", TRUE, FALSE),
    ItemDefinition("S2", "sensory", TRUE, FALSE),
    ItemDefinition("S3", "sensory", TRUE, FALSE),
    ItemDefinition("S4", "sensory", TRUE, FALSE),
    ItemDefinition("S5", "sensory", TRUE, FALSE),
    ItemDefinition("S6", "sensory", TRUE, TRUE),
    ItemDefinition("S7", "sensory", TRUE, TRUE),
    ItemDefinition("S8", "sensory", TRUE, FALSE),
    ItemDefinition("S9", "sensory", TRUE, FALSE),
    ItemDefinition("S10", "sensory", TRUE, TRUE),
    ItemDefinition("S11", "sensory", TRUE, FALSE),
    ItemDefinition("S12", "sensory", TRUE, FALSE),
    ItemDefinition("S13", "sensory", TRUE, FALSE),
    ItemDefinition("SO1", "social", TRUE, FALSE),
    ItemDefinition("SO2", "social", TRUE, TRUE),
    ItemDefinition("SO3", "social", TRUE, TRUE),
    ItemDefinition("SO4", "social", TRUE, FALSE),
    ItemDefinition("SO5", "social", TRUE, TRUE),
    ItemDefinition("SO6", "social", TRUE, FALSE),
    ItemDefinition("SO7", "social", TRUE, TRUE),
    ItemDefinition("SO8", "social", TRUE, FALSE),
    ItemDefinition("SO9", "social", TRUE, TRUE),
    ItemDefinition("SO10", "social", TRUE, FALSE),
    ItemDefinition("SO11", "social", TRUE, FALSE),
    ItemDefinition("SO12", "social", TRUE, FALSE),
    ItemDefinition("SO13", "social", TRUE, TRUE),
    ItemDefinition("E1", "executive", TRUE, FALSE),
    ItemDefinition("E2", "executive", TRUE, TRUE),
    ItemDefinition("E3", "executive", TRUE, TRUE),
    ItemDefinition("E4", "executive", TRUE, FALSE),
    ItemDefinition("E5", "executive", TRUE, FALSE),
    ItemDefinition("E6", "executive", TRUE, FALSE),
    ItemDefinition("E7", "executive", TRUE, TRUE),
    ItemDefinition("E8", "executive", TRUE, FALSE),
    ItemDefinition("E9", "executive", TRUE, FALSE),
    ItemDefinition("E10", "executive", TRUE, FALSE),
    ItemDefinition("E11", "executive", TRUE, TRUE),
    ItemDefinition("E12", "executive", TRUE, FALSE),
    ItemDefinition("E13", "executive", TRUE, TRUE),
    ItemDefinition("E14", "executive", TRUE, TRUE),
    ItemDefinition("E15", "executive", TRUE, FALSE),
    ItemDefinition("E16", "executive", TRUE, FALSE),
    ItemDefinition("M1", "motivation", TRUE, FALSE),
    ItemDefinition("M2", "motivation", FALSE, FALSE),
    ItemDefinition("M3", "motivation", TRUE, FALSE),
    ItemDefinition("M4", "motivation", TRUE, FALSE),
    ItemDefinition("M5", "motivation", TRUE, FALSE),
    ItemDefinition("M6", "motivation", TRUE, FALSE),
    ItemDefinition("M7", "motivation", TRUE, FALSE),
    ItemDefinition("M8", "motivation", TRUE, FALSE),
    ItemDefinition("M9", "motivation", FALSE, FALSE),
    ItemDefinition("M10", "motivation", TRUE, FALSE),
    ItemDefinition("M11", "motivation", TRUE, FALSE),
    ItemDefinition("M12", "motivation", TRUE, FALSE),
    ItemDefinition("M13", "motivation", TRUE, TRUE),
    ItemDefinition("M14", "motivation", TRUE, TRUE),
    ItemDefinition("M15", "motivation", TRUE, TRUE),
    ItemDefinition("M16", "motivation", TRUE, TRUE),
    ItemDefinition("M17", "motivation", TRUE, FALSE),
    ItemDefinition("M18", "motivation", TRUE, FALSE),
    ItemDefinition("R1", "regulation", TRUE, TRUE),
    ItemDefinition("R2", "regulation", TRUE, TRUE),
    ItemDefinition("R3", "regulation", TRUE, TRUE),
    ItemDefinition("R4", "regulation", TRUE, TRUE),
    ItemDefinition("R5", "regulation", TRUE, FALSE),
    ItemDefinition("R6", "regulation", TRUE, FALSE),
    ItemDefinition("R7", "regulation", TRUE, FALSE),
    ItemDefinition("R8", "regulation", TRUE, FALSE),
    ItemDefinition("R9", "regulation", TRUE, TRUE),
    ItemDefinition("R10", "regulation", TRUE, FALSE),
    ItemDefinition("R11", "regulation", TRUE, FALSE),
    ItemDefinition("R12", "regulation", TRUE, FALSE)
  >>

LIKERT_MIN == 1
LIKERT_MAX == 5

Range(s) == {s[i] : i \in DOMAIN s}

TaxonomyCodes == {ITEM_DEFINITIONS[i].code : i \in DOMAIN ITEM_DEFINITIONS}

\* ITEM_DEFINITIONS as the mapping code -> definition
ItemByCode ==
  [code \in TaxonomyCodes |->
     ITEM_DEFINITIONS[CHOOSE i \in DOMAIN ITEM_DEFINITIONS : ITEM_DEFINITIONS[i].code = code]]

\* ITEM_DEFINITIONS[code]
ItemDef(code) == ItemByCode[code]

IsMain(item) == item.include_in_main_scale

MAIN_ITEMS_DEFINED == SelectSeq(ITEM_DEFINITIONS, IsMain)

IsIndex(item) == ~item.include_in_main_scale

INDEX_ITEMS_DEFINED == SelectSeq(ITEM_DEFINITIONS, IsIndex)

\* Codes a caller may add that the taxonomy does not know.
UnknownCodes == {"Z99", "A17"}

\* The characters (code points) of every code string; Python compares
\* strings lexicographically by code point (CodePoints[code]).
StrTable ==
  <<
    <<"A1", <<65, 49>>>>,
    <<"A2", <<65, 50>>>>,
    <<"A3", <<65, 51>>>>,
    <<"A4", <<65, 52>>>>,
    <<"A5", <<65, 53>>>>,
    <<"A6", <<65, 54>>>>,
    <<"A7", <<65, 55>>>>,
    <<"A8", <<65, 56>>>>,
    <<"A9", <<65, 57>>>>,
    <<"A10", <<65, 49, 48>>>>,
    <<"A11", <<65, 49, 49>>>>,
    <<"A12", <<65, 49, 50>>>>,
    <<"A13", <<65, 49, 51>>>>,
    <<"A14", <<65, 49, 52>>>>,
    <<"A15", <<65, 49, 53>>>>,
    <<"A16", <<65, 49, 54>>>>,
    <<"S1", <<83, 49>>>>,
    <<"S2", <<83, 50>>>>,
    <<"S3", <<83, 51>>>>,
    <<"S4", <<83, 52>>>>,
    <<"S5", <<83, 53>>>>,
    <<"S6", <<83, 54>>>>,
    <<"S7", <<83, 55>>>>,
    <<"S8", <<83, 56>>>>,
    <<"S9", <<83, 57>>>>,
    <<"S10", <<83, 49, 48>>>>,
    <<"S11", <<83, 49, 49>>>>,
    <<"S12", <<83, 49, 50>>>>,
    <<"S13", <<83, 49, 51>>>>,
    <<"SO1", <<83, 79, 49>>>>,
    <<"SO2", <<83, 79, 50>>>>,
    <<"SO3", <<83, 79, 51>>>>,
    <<"SO4", <<83, 79, 52>>>>,
    <<"SO5", <<83, 79, 53>>>>,
    <<"SO6", <<83, 79, 54>>>>,
    <<"SO7", <<83, 79, 55>>>>,
    <<"SO8", <<83, 79, 56>>>>,
    <<"SO9", <<83, 79, 57>>>>,
    <<"SO10", <<83, 79, 49, 48>>>>,
    <<"SO11", <<83, 79, 49, 49>>>>,
    <<"SO12", <<83, 79, 49, 50>>>>,
    <<"SO13", <<83, 79, 49, 51>>>>,
    <<"E1", <<69, 49>>>>,
    <<"E2", <<69, 50>>>>,
    <<"E3", <<69, 51>>>>,
    <<"E4", <<69, 52>>>>,
    <<"E5", <<69, 53>>>>,
    <<"E6", <<69, 54>>>>,
    <<"E7", <<69, 55>>>>,
    <<"E8", <<69, 56>>>>,
    <<"E9", <<69, 57>>>>,
    <<"E10", <<69, 49, 48>>>>,
    <<"E11", <<69, 49, 49>>>>,
    <<"E12", <<69, 49, 50>>>>,
    <<"E13", <<69, 49, 51>>>>,
    <<"E14", <<69, 49, 52>>>>,
    <<"E15", <<69, 49, 53>>>>,
    <<"E16", <<69, 49, 54>>>>,
    <<"M1", <<77, 49>>>>,
    <<"M2", <<77, 50>>>>,
    <<"M3", <<77, 51>>>>,
    <<"M4", <<77, 52>>>>,
    <<"M5", <<77, 53>>>>,
    <<"M6", <<77, 54>>>>,
    <<"M7", <<77, 55>>>>,
    <<"M8", <<77, 56>>>>,
    <<"M9", <<77, 57>>>>,
    <<"M10", <<77, 49, 48>>>>,
    <<"M11", <<77, 49, 49>>>>,
    <<"M12", <<77, 49, 50>>>>,
    <<"M13", <<77, 49, 51>>>>,
    <<"M14", <<77, 49, 52>>>>,
    <<"M15", <<77, 49, 53>>>>,
    <<"M16", <<77, 49, 54>>>>,
    <<"M17", <<77, 49, 55>>>>,
    <<"M18", <<77, 49, 56>>>>,
    <<"R1", <<82, 49>>>>,
    <<"R2", <<82, 50>>>>,
    <<"R3", <<82, 51>>>>,
    <<"R4", <<82, 52>>>>,
    <<"R5", <<82, 53>>>>,
    <<"R6", <<82, 54>>>>,
    <<"R7", <<82, 55>>>>,
    <<"R8", <<82, 56>>>>,
    <<"R9", <<82, 57>>>>,
    <<"R10", <<82, 49, 48>>>>,
    <<"R11", <<82, 49, 49>>>>,
    <<"R12", <<82, 49, 50>>>>,
    <<"Z99", <<90, 57, 57>>>>,
    <<"A17", <<65, 49, 55>>>>
  >>

CodePoints ==
  [code \in {StrTable[i][1] : i \in DOMAIN StrTable} |->
     StrTable[CHOOSE i \in DOMAIN StrTable : StrTable[i][1] = code][2]]

-----------------------------------------------------------------------------
(* Python values and exceptions *)

\* A Python value: its type name and a number (the int itself, 1/0 for
\* True/False, the numeric content of a float or a digit string).
PyInt(n) == [t |-> "int", v |-> n]

PyTrue == [t |-> "bool", v |-> 1]

PyFalse == [t |-> "bool", v |-> 0]

PyFloat3 == [t |-> "float", v |-> 3]

PyStr3 == [t |-> "str", v |-> 3]

\* isinstance(value, int): bool is a subclass of int.
IsInstanceInt(value) == value.t \in {"int", "bool"}

\* The values a caller may put in the dict.
ValueDomain ==
  {PyInt(n) : n \in 0..MaxInt} \cup {PyTrue, PyFalse, PyFloat3, PyStr3}

\* The result of a call: a returned value or a raised exception.
NoResult == [none |-> TRUE]

Return(result) == [kind |-> "return", msg |-> "", codes |-> <<>>, result |-> result]

Raise(kind, msg, codes) == [kind |-> kind, msg |-> msg, codes |-> codes, result |-> NoResult]

NotCalled == [kind |-> "none", msg |-> "", codes |-> <<>>, result |-> NoResult]

Raised(o) == o.kind \notin {"return", "none"}

\* A call as the caller remembers it: the function, its arguments and what
\* it did.
CallRecord(f, d, id, x, o) == [op |-> f, ratings |-> d, profile_id |-> id, arg |-> x, outcome |-> o]

NoCall == CallRecord("", <<>>, "None", NoResult, NotCalled)

\* A caller of the engine alone has no answer file, no orchestrator and no
\* output directories.
NoFile == [has_columns |-> FALSE, rows |-> <<>>]

NoOrchestrator == [pc |-> "none"]

NoOutput == [case_sensitive |-> TRUE, dirs |-> {}, now |-> 0]

-----------------------------------------------------------------------------
(* dict and str primitives *)

Keys(d) == {d[i].code : i \in DOMAIN d}

Has(d, code) == \E i \in DOMAIN d : d[i].code = code

Get(d, code) == d[CHOOSE i \in DOMAIN d : d[i].code = code].value

\* d[code] = value: an existing key keeps its position, a new key goes last.
DictSet(d, code, value) ==
  IF Has(d, code)
  THEN [i \in DOMAIN d |-> IF d[i].code = code THEN [code |-> code, value |-> value] ELSE d[i]]
  ELSE Append(d, [code |-> code, value |-> value])

\* del d[code]
DictDel(d, code) == LET Keep(e) == e.code # code IN SelectSeq(d, Keep)

Min(S) == CHOOSE x \in S : \A y \in S : x <= y

RECURSIVE SeqLess(_, _)
SeqLess(a, b) ==
  IF a = <<>> THEN b # <<>>
  ELSE IF b = <<>> THEN FALSE
  ELSE IF Head(a) # Head(b) THEN Head(a) < Head(b)
  ELSE SeqLess(Tail(a), Tail(b))

\* a < b on Python str
StrLess(a, b) == SeqLess(CodePoints[a], CodePoints[b])

RECURSIVE Insert(_, _)
\* the sorted sequence s with the string x put in its place
Insert(x, s) ==
  IF s = <<>> THEN <<x>>
  ELSE IF StrLess(x, Head(s)) THEN <<x>> \o s
  ELSE <<Head(s)>> \o Insert(x, Tail(s))

RECURSIVE SortedFrom(_)
SortedFrom(S) ==
  IF S = {} THEN <<>>
  ELSE LET x == CHOOSE y \in S : TRUE IN Insert(x, SortedFrom(S \ {x}))

\* Mutant: the codes are listed in taxonomy (dict) order, not sorted.
sorted_dict_order(S) ==
  LET In(row) == row[1] \in S
      rows == SelectSeq(StrTable, In)
  IN [i \in DOMAIN rows |-> rows[i][1]]

\* sorted(S) for a collection of distinct strings
sorted(S) == SortedFrom(S)

RECURSIVE SumSeq(_)
SumSeq(s) == IF s = <<>> THEN 0 ELSE Head(s) + SumSeq(Tail(s))

\* num/den rounded to the nearest integer, ties to even (den > 0)
RoundHalfEven(num, den) ==
  LET q == num \div den
      r == num % den
  IN IF 2 * r < den THEN q
     ELSE IF 2 * r > den THEN q + 1
     ELSE IF q % 2 = 0 THEN q ELSE q + 1

\* A rational number num/den with den > 0.
Rat(num, den) == [num |-> num, den |-> den]

\* round(q, 1) in tenths and round(q, 2) in hundredths
Round1(q) == RoundHalfEven(q.num * 10, q.den)

Round2(q) == RoundHalfEven(q.num * 100, q.den)

-----------------------------------------------------------------------------
(* Kernlogik: auswertung.py lines 312-388 *)

\* Mutant: the mirror is taken at LIKERT_MAX alone.
reverse_likert_from_max(value) ==
  IF ~IsInstanceInt(value) THEN Raise("TypeError", "Likert-Wert muss int sein", <<>>)
  ELSE IF ~(LIKERT_MIN <= value.v /\ value.v <= LIKERT_MAX)
       THEN Raise("ValueError", "Likert-Wert ausserhalb", <<>>)
  ELSE Return(LIKERT_MAX - value.v)

\* Mutant: the range check is missing.
reverse_likert_no_range(value) ==
  IF ~IsInstanceInt(value) THEN Raise("TypeError", "Likert-Wert muss int sein", <<>>)
  ELSE Return(LIKERT_MIN + LIKERT_MAX - value.v)

\* Mutant: the type check is type(value) is int, which rejects bool.
reverse_likert_exact_int(value) ==
  IF value.t # "int" THEN Raise("TypeError", "Likert-Wert muss int sein", <<>>)
  ELSE IF ~(LIKERT_MIN <= value.v /\ value.v <= LIKERT_MAX)
       THEN Raise("ValueError", "Likert-Wert ausserhalb", <<>>)
  ELSE Return(LIKERT_MIN + LIKERT_MAX - value.v)

reverse_likert(value) ==
  IF ~IsInstanceInt(value) THEN Raise("TypeError", "Likert-Wert muss int sein", <<>>)
  ELSE IF ~(LIKERT_MIN <= value.v /\ value.v <= LIKERT_MAX)
       THEN Raise("ValueError", "Likert-Wert ausserhalb", <<>>)
  ELSE Return(LIKERT_MIN + LIKERT_MAX - value.v)

\* A float (or int) score: q is the exact rational the number stands for.
PyScore(q) == [t |-> "float", q |-> q]

\* Mutant: the cutoffs belong to the lower bucket (<= instead of <).
classify_score_inclusive(score) ==
  IF score.t \notin {"int", "bool", "float"}
  THEN Raise("TypeError", "Score muss numerisch sein", <<>>)
  ELSE IF ~(0 <= score.q.num /\ score.q.num <= 100 * score.q.den)
  THEN Raise("ValueError", "Score muss zwischen 0 und 100 liegen", <<>>)
  ELSE IF score.q.num <= 40 * score.q.den THEN Return("niedrig")
  ELSE IF score.q.num <= 75 * score.q.den THEN Return("mittel")
  ELSE Return("hoch")

classify_score(score) ==
  IF score.t \notin {"int", "bool", "float"}
  THEN Raise("TypeError", "Score muss numerisch sein", <<>>)
  ELSE IF ~(0 <= score.q.num /\ score.q.num <= 100 * score.q.den)
  THEN Raise("ValueError", "Score muss zwischen 0 und 100 liegen", <<>>)
  ELSE IF score.q.num < 40 * score.q.den THEN Return("niedrig")
  ELSE IF score.q.num < 75 * score.q.den THEN Return("mittel")
  ELSE Return("hoch")

\* Mutant: only the main-scale items are required.
missing_codes_main_only(d) == {c \in TaxonomyCodes : IsMain(ItemDef(c))} \ Keys(d)

missing_codes(d) == TaxonomyCodes \ Keys(d)

\* Mutant: extra is computed like missing.
extra_codes_as_missing(d) == TaxonomyCodes \ Keys(d)

extra_codes(d) == Keys(d) \ TaxonomyCodes

\* Mutant: the loop body checks the range only, on the value's number.
entry_error_range_only(e) ==
  IF ~(LIKERT_MIN <= e.value.v /\ e.value.v <= LIKERT_MAX)
  THEN Raise("ValueError", "ausserhalb des erlaubten Bereichs", <<e.code>>)
  ELSE NotCalled

\* The per-entry check of the loop body at one entry.
entry_error(e) ==
  IF ~IsInstanceInt(e.value) THEN Raise("TypeError", "ist kein int", <<e.code>>)
  ELSE IF ~(LIKERT_MIN <= e.value.v /\ e.value.v <= LIKERT_MAX)
       THEN Raise("ValueError", "ausserhalb des erlaubten Bereichs", <<e.code>>)
  ELSE NotCalled

\* The loop over the dict entries: bad holds the positions that raise.
validate_entries(d, bad) ==
  IF bad # {} THEN entry_error(d[Min(bad)]) ELSE Return(NoResult)

\* Mutant: the extra codes are checked before the missing ones.
validate_codes_extra_first(d, missing, extra) ==
  IF extra # {} THEN Raise("ValueError", "Unbekannte Items", sorted(extra))
  ELSE IF missing # {} THEN Raise("ValueError", "Fehlende Items", sorted(missing))
  ELSE validate_entries(d, {i \in DOMAIN d : Raised(entry_error(d[i]))})

validate_codes(d, missing, extra) ==
  IF missing # {} THEN Raise("ValueError", "Fehlende Items", sorted(missing))
  ELSE IF extra # {} THEN Raise("ValueError", "Unbekannte Items", sorted(extra))
  ELSE validate_entries(d, {i \in DOMAIN d : Raised(entry_error(d[i]))})

validate_ratings(d) == validate_codes(d, missing_codes(d), extra_codes(d))

-----------------------------------------------------------------------------
(* load_ratings_from_csv: auswertung.py lines 391-452 *)

\* A field of a row as csv.DictReader hands it over: its text without the
\* surrounding whitespace, whether there is such whitespace, or None for a
\* field the row is too short to have.
Cell(text, pad) == [text |-> text, pad |-> pad, none |-> FALSE]

Row(item_code, rating) == [item_code |-> item_code, rating |-> rating]

\* str.strip()
strip(cell) == cell.text

\* The texts int() accepts among those a file holds here, with their values;
\* int() raises ValueError on every other text ("", "x", "3.0").
ParseInt(text) ==
  LET IntLiterals ==
        << <<"1", 1>>, <<"2", 2>>, <<"3", 3>>, <<"4", 4>>, <<"5", 5>>,
           <<"0", 0>>, <<"6", 6>>, <<"-1", 0 - 1>>, <<"+3", 3>>, <<"03", 3>>, <<"10", 10>> >>
  IN IF \E i \in DOMAIN IntLiterals : IntLiterals[i][1] = text
     THEN [ok |-> TRUE,
           v |-> IntLiterals[CHOOSE i \in DOMAIN IntLiterals : IntLiterals[i][1] = text][2]]
     ELSE [ok |-> FALSE, v |-> 0]

\* What a call of the loader did: its outcome, the part of the function
\* that ended it ("header", "rows", "complete", "validate", "return"), the
\* dict accumulated when the row loop was over, and the line (row_num) of
\* the row at which the loop raised.
LoadRun(o, stage, acc, row_num) ==
  [outcome |-> o, stage |-> stage, ratings |-> acc, row_num |-> row_num]

\* Mutant: the range check of the row loop is missing.
row_value_any_int(code, parsed, acc) ==
  IF ~parsed.ok
  THEN Raise("ValueError", "Ungueltiger Wert fuer rating bei Item", <<code>>)
  ELSE Return(DictSet(acc, code, PyInt(parsed.v)))

\* The loop body from raw_value = int(raw_value_str) on.
row_value(code, parsed, acc) ==
  IF ~parsed.ok
  THEN Raise("ValueError", "Ungueltiger Wert fuer rating bei Item", <<code>>)
  ELSE IF ~(LIKERT_MIN <= parsed.v /\ parsed.v <= LIKERT_MAX)
       THEN Raise("ValueError", "rating muss zwischen 1 und 5 liegen", <<code>>)
  ELSE Return(DictSet(acc, code, PyInt(parsed.v)))

\* Mutant: a code that occurred before is not rejected; the later row wins.
row_checked_overwrites(code, rating, acc) ==
  IF code = "" THEN Return(acc)
  ELSE IF code \notin TaxonomyCodes
       THEN Raise("ValueError", "Unbekannter item_code", <<code>>)
  ELSE IF rating.none
       THEN Raise("AttributeError", "'NoneType' object has no attribute 'strip'", <<>>)
  ELSE row_value(code, ParseInt(strip(rating)), acc)

\* The loop body after code = row["item_code"].strip(): the new dict, or the
\* error of the row.
row_checked(code, rating, acc) ==
  IF code = "" THEN Return(acc)
  ELSE IF Has(acc, code)
       THEN Raise("ValueError", "Doppelter Eintrag fuer Item", <<code>>)
  ELSE IF code \notin TaxonomyCodes
       THEN Raise("ValueError", "Unbekannter item_code", <<code>>)
  ELSE IF rating.none
       THEN Raise("AttributeError", "'NoneType' object has no attribute 'strip'", <<>>)
  ELSE row_value(code, ParseInt(strip(rating)), acc)

row_step(row, acc) ==
  IF row.item_code.none
  THEN Raise("AttributeError", "'NoneType' object has no attribute 'strip'", <<>>)
  ELSE row_checked(strip(row.item_code), row.rating, acc)

\* The completeness check after the loop, and the end of the function:
\* validate_ratings(ratings); return ratings
after_rows(acc, missing) ==
  IF missing # <<>>
  THEN LoadRun(Raise("ValueError", "Die folgenden Items fehlen in der Datei", missing),
               "complete", acc, 0)
  ELSE IF Raised(validate_ratings(acc))
  THEN LoadRun(validate_ratings(acc), "validate", acc, 0)
  ELSE LoadRun(Return(acc), "return", acc, 0)

RECURSIVE row_loop(_, _, _)
\* for row_num, row in enumerate(reader, start=2), from the k-th row on with
\* the result of the row before
row_loop(rows, k, step) ==
  IF Raised(step) THEN LoadRun(step, "rows", <<>>, k)
  ELSE IF k > Len(rows)
       THEN after_rows(step.result, sorted(TaxonomyCodes \ Keys(step.result)))
  ELSE row_loop(rows, k + 1, row_step(rows[k], step.result))

\* The file exists and can be read; has_columns: the header names the
\* columns item_code and rating.
load_ratings_from_csv_run(file) ==
  IF ~file.has_columns
  THEN LoadRun(Raise("ValueError", "CSV muss mindestens die Spalten besitzen", <<>>),
               "header", <<>>, 0)
  ELSE row_loop(file.rows, 1, Return(<<>>))

load_ratings_from_csv(file) == load_ratings_from_csv_run(file).outcome

-----------------------------------------------------------------------------
(* Aggregation: auswertung.py lines 339-368 and 455-615 *)

\* (mean - LIKERT_MIN) / (LIKERT_MAX - LIKERT_MIN) * 100.0 for mean = sum/n
rescale(sum, n) == Rat((sum - n * LIKERT_MIN) * 100, (LIKERT_MAX - LIKERT_MIN) * n)

\* Values sum() and the arithmetic accept (int, bool, float).
IsNumber(value) == value.t \in {"int", "bool", "float"}

\* First loop of compute_dimension_scores at one entry: the taxonomy lookup
\* and the reverse-coding of a reverse-scored main-scale item.
collect_error(e) ==
  IF e.code \notin TaxonomyCodes THEN Raise("KeyError", "", <<e.code>>)
  ELSE IF ItemDef(e.code).include_in_main_scale /\ ItemDef(e.code).reverse_scored
       THEN reverse_likert(e.value)
  ELSE NotCalled

\* Mutant: reverse-scored items are not reverse-coded.
final_val_raw(e) == e.value.v

\* final_val of a collected entry
final_val(e) ==
  IF ItemDef(e.code).reverse_scored THEN reverse_likert(e.value).result ELSE e.value.v

\* Mutant: the first loop does not skip the items outside the main scale.
dim_entries_all_items(d, dim_code) ==
  LET In(e) == ItemDef(e.code).dimension_code = dim_code
  IN SelectSeq(d, In)

\* The entries the first loop appends to the lists of dimension dim_code,
\* in dict order.
dim_entries(d, dim_code) ==
  LET In(e) == /\ ItemDef(e.code).include_in_main_scale
               /\ ItemDef(e.code).dimension_code = dim_code
  IN SelectSeq(d, In)

\* The lists dim_values[dim_code] and dim_raw_values[dim_code]
dim_values(es) == [i \in 1..Len(es) |-> final_val(es[i])]

dim_raw_values(es) == [i \in 1..Len(es) |-> es[i].value.v]

IsReverse(e) == ItemDef(e.code).reverse_scored

\* Mutant: the items of a dimension are listed in dict order, not sorted.
dimension_record_unsorted(dim_code, es, score, level) ==
  [label |-> DIMENSION_LABELS[dim_code],
   score |-> Round1(score),
   level |-> level,
   num_items |-> Len(es),
   num_reversed |-> Len(SelectSeq(es, IsReverse)),
   raw_mean |-> Round2(Rat(SumSeq(dim_raw_values(es)), Len(es))),
   items |-> [i \in 1..Len(es) |-> es[i].code]]

\* results[dim_code] for the collected entries es, their unrounded score
\* and its level
dimension_record(dim_code, es, score, level) ==
  [label |-> DIMENSION_LABELS[dim_code],
   score |-> Round1(score),
   level |-> level,
   num_items |-> Len(es),
   num_reversed |-> Len(SelectSeq(es, IsReverse)),
   raw_mean |-> Round2(Rat(SumSeq(dim_raw_values(es)), Len(es))),
   items |-> sorted({es[i].code : i \in 1..Len(es)})]

dimension_scored(dim_code, es, score, level) ==
  IF Raised(level) THEN level
  ELSE Return(dimension_record(dim_code, es, score, level.result))

dimension_of(dim_code, es, score) ==
  dimension_scored(dim_code, es, score, classify_score(PyScore(score)))

\* One iteration of the second loop of compute_dimension_scores, for the
\* entries es collected for dim_code.
dimension_result(dim_code, es) ==
  IF Len(es) = 0 THEN Raise("RuntimeError", "Keine Items fuer Dimension", <<dim_code>>)
  ELSE IF \E i \in 1..Len(es) : ~IsNumber(es[i].value)
       THEN Raise("TypeError", "unsupported operand type(s) for +", <<>>)
  ELSE dimension_of(dim_code, es, rescale(SumSeq(dim_values(es)), Len(es)))

\* One more iteration of the second loop: prev is the outcome of the
\* iterations before (the results so far, or the exception raised), r the
\* outcome of this one.
loop_step(prev, r) ==
  IF Raised(prev) THEN prev
  ELSE IF Raised(r) THEN r
  ELSE Return(Append(prev.result, r.result))

RECURSIVE second_loop(_, _)
\* The second loop of compute_dimension_scores over the first k keys of
\* DIMENSION_LABELS, in dict order.
second_loop(d, k) ==
  IF k = 0 THEN Return(<<>>)
  ELSE loop_step(second_loop(d, k - 1),
                 dimension_result(DimensionOrder[k], dim_entries(d, DimensionOrder[k])))

\* The dict results, keyed by dimension code.
results_dict(looped) ==
  IF Raised(looped) THEN looped
  ELSE Return([dim_code \in Range(DimensionOrder) |->
                 looped.result[CHOOSE k \in DOMAIN DimensionOrder : DimensionOrder[k] = dim_code]])

\* First loop over the dict entries: bad holds the positions that raise.
first_loop(d, bad) ==
  IF bad # {} THEN collect_error(d[Min(bad)])
  ELSE results_dict(second_loop(d, Len(DimensionOrder)))

compute_dimension_scores(d) ==
  first_loop(d, {i \in DOMAIN d : Raised(collect_error(d[i]))})

\* Mutant: the first morning item is mistyped as the main item A1.
morning_items_mistyped == <<"A1", "A13", "A14", "A15">>

morning_items == <<"A8", "A13", "A14", "A15">>

evening_items == <<"A9", "A16">>

\* balance < k/10 for the exact rational balance
BalanceBelow(balance, k) == 10 * balance.num < k * balance.den

chronotype_interpretation(balance) ==
  IF BalanceBelow(balance, -8) THEN "Deutlicher Morgentyp"
  ELSE IF BalanceBelow(balance, -4) THEN "Leichter Morgentyp"
  ELSE IF BalanceBelow(balance, 4) THEN "Neutraler/intermediaerer Typ"
  ELSE IF BalanceBelow(balance, 8) THEN "Leichter Abendtyp"
  ELSE "Deutlicher Abendtyp"

\* The index from the sums ms, es of the nm morning and ne evening ratings
\* and balance = es/ne - ms/nm.
chronotype_record(ms, nm, es, ne, balance) ==
  [label |-> "Chronotyp-Profil",
   morning_tendency |-> Round1(rescale(ms, nm)),
   evening_tendency |-> Round1(rescale(es, ne)),
   balance_score |-> Round2(balance),
   interpretation |-> chronotype_interpretation(balance),
   num_items |-> nm + ne,
   items |-> morning_items \o evening_items]

\* Mutant: the balance is morning minus evening.
chronotype_of_morning_minus_evening(ms, nm, es, ne) ==
  chronotype_record(ms, nm, es, ne, Rat(ms * ne - es * nm, ne * nm))

chronotype_of(ms, nm, es, ne) ==
  chronotype_record(ms, nm, es, ne, Rat(es * nm - ms * ne, ne * nm))

\* [ratings[code] for code in items]
item_values(d, items) == [i \in DOMAIN items |-> Get(d, items[i]).v]

\* absent: the positions in morning_items + evening_items of the codes the
\* dict lacks; the first lookup that fails raises.
chronotype_checked(d, absent) ==
  IF absent # {}
  THEN Raise("ValueError", "Fehlender Chronotyp-Wert fuer Item",
             <<(morning_items \o evening_items)[Min(absent)]>>)
  ELSE IF \E i \in DOMAIN morning_items : ~IsNumber(Get(d, morning_items[i]))
       THEN Raise("TypeError", "unsupported operand type(s) for +", <<>>)
  ELSE IF \E i \in DOMAIN evening_items : ~IsNumber(Get(d, evening_items[i]))
       THEN Raise("TypeError", "unsupported operand type(s) for +", <<>>)
  ELSE Return(chronotype_of(SumSeq(item_values(d, morning_items)), Len(morning_items),
                            SumSeq(item_values(d, evening_items)), Len(evening_items)))

compute_chronotype_index(d) ==
  chronotype_checked(d, {i \in 1..(Len(morning_items) + Len(evening_items)) :
                           ~Has(d, (morning_items \o evening_items)[i])})

avoid_items == <<"M2", "M9">>

avoidance_record(sum, n, score, level) ==
  IF Raised(level) THEN level
  ELSE Return([label |-> "Vermeidungsorientierung (Motivation)",
               score |-> Round1(score),
               level |-> level.result,
               num_items |-> n,
               raw_mean |-> Round2(Rat(sum, n)),
               items |-> avoid_items])

avoidance_of(sum, n, score) == avoidance_record(sum, n, score, classify_score(PyScore(score)))

\* The motivation_avoidance entry; built only when both items are present.
avoidance_index(d) ==
  IF \E i \in DOMAIN avoid_items : ~IsNumber(Get(d, avoid_items[i]))
  THEN Raise("TypeError", "unsupported operand type(s) for +", <<>>)
  ELSE avoidance_of(SumSeq(item_values(d, avoid_items)), Len(avoid_items),
                    rescale(SumSeq(item_values(d, avoid_items)), Len(avoid_items)))

\* Mutant: the chronotype entry replaces the indices made so far.
add_chronotype_overwrites(indices, chrono) ==
  IF chrono.kind = "ValueError"
  THEN Raise("RuntimeError", "Interner Konsistenzfehler beim Chronotyp-Index", chrono.codes)
  ELSE IF Raised(chrono) THEN chrono
  ELSE Return([k \in {"chronotype"} |-> chrono.result])

\* Mutant: the ValueError of the chronotype index is passed on as it is.
add_chronotype_reraises(indices, chrono) ==
  IF Raised(chrono) THEN chrono
  ELSE Return([k \in DOMAIN indices \cup {"chronotype"} |->
                 IF k = "chronotype" THEN chrono.result ELSE indices[k]])

\* The chronotype part of compute_additional_indices: indices holds the
\* entries made so far; a ValueError of the index becomes a RuntimeError.
add_chronotype(indices, chrono) ==
  IF chrono.kind = "ValueError"
  THEN Raise("RuntimeError", "Interner Konsistenzfehler beim Chronotyp-Index", chrono.codes)
  ELSE IF Raised(chrono) THEN chrono
  ELSE Return([k \in DOMAIN indices \cup {"chronotype"} |->
                 IF k = "chronotype" THEN chrono.result ELSE indices[k]])

add_avoidance(d, avoid) ==
  IF Raised(avoid) THEN avoid
  ELSE add_chronotype([k \in {"motivation_avoidance"} |-> avoid.result],
                      compute_chronotype_index(d))

compute_additional_indices(d) ==
  IF \A i \in DOMAIN avoid_items : Has(d, avoid_items[i])
  THEN add_avoidance(d, avoidance_index(d))
  ELSE add_chronotype([k \in {} |-> NoResult], compute_chronotype_index(d))

\* warnings is the list, or None when it is empty (warnings_is_none).
\* Exact numbers; the float sum of squared deviations can differ from the
\* exact variance in the last bits only, which neither the comparison with
\* 0.5 nor round(variance, 2) exposes on 88 ratings: a variance of exactly
\* 0.5, or one at a rounding tie, needs a mean that is a multiple of 0.5,
\* and then the float computation is exact.
quality_record(unique_values, mean_val, variance, quality_warnings) ==
  [num_unique_responses |-> unique_values,
   response_variance |-> Round2(variance),
   mean_response |-> Round2(mean_val),
   quality_flag |-> IF quality_warnings = <<>> THEN "ok" ELSE "check",
   warnings |-> quality_warnings,
   warnings_is_none |-> quality_warnings = <<>>]

\* Mutant: straight-lining is a single distinct value (< 2 instead of <= 2).
quality_of_single_value(unique_values, mean_val, variance) ==
  quality_record(unique_values, mean_val, variance,
                 (IF unique_values < 2 THEN <<QUALITY_WARN_STRAIGHT>> ELSE <<>>)
                 \o (IF 2 * variance.num < variance.den THEN <<QUALITY_WARN_LOW_VAR>> ELSE <<>>))

quality_of(unique_values, mean_val, variance) ==
  quality_record(unique_values, mean_val, variance,
                 (IF unique_values <= 2 THEN <<QUALITY_WARN_STRAIGHT>> ELSE <<>>)
                 \o (IF 2 * variance.num < variance.den THEN <<QUALITY_WARN_LOW_VAR>> ELSE <<>>))

\* sum((v - mean) ** 2 for v in values) / n with mean = total/n, exactly:
\* (n * sum(v*v) - total*total) / (n*n)
variance_of(values, n, total) ==
  Rat(n * SumSeq([i \in 1..n |-> values[i] * values[i]]) - total * total, n * n)

quality_values(values, n, total) ==
  quality_of(Cardinality(Range(values)), Rat(total, n), variance_of(values, n, total))

quality_from(values) ==
  IF Len(values) = 0 THEN Raise("ZeroDivisionError", "division by zero", <<>>)
  ELSE Return(quality_values(values, Len(values), SumSeq(values)))

check_response_quality(d) == quality_from([i \in 1..Len(d) |-> d[i].value.v])

RECURSIVE SumOver(_, _)
\* sum(f[x] for x in S)
SumOver(f, S) ==
  IF S = {} THEN 0
  ELSE LET x == CHOOSE y \in S : TRUE IN f[x] + SumOver(f, S \ {x})

\* Mutant: the main-scale count is the number of answered items.
profile_meta_main_as_answered(d, dimensions) ==
  [version |-> VERSION,
   num_items_instrument |-> Len(ITEM_DEFINITIONS),
   num_items_answered |-> Len(d),
   num_items_main_scales |-> Len(d),
   num_items_additional |-> Len(INDEX_ITEMS_DEFINED),
   num_reversed_total |-> SumOver([k \in DOMAIN dimensions |-> dimensions[k].num_reversed], DOMAIN dimensions),
   likert_min |-> LIKERT_MIN,
   likert_max |-> LIKERT_MAX,
   score_min |-> 0,
   score_max |-> 100]

\* The meta block of the profile.
profile_meta(d, dimensions) ==
  [version |-> VERSION,
   num_items_instrument |-> Len(ITEM_DEFINITIONS),
   num_items_answered |-> Len(d),
   num_items_main_scales |-> SumOver([k \in DOMAIN dimensions |-> dimensions[k].num_items], DOMAIN dimensions),
   num_items_additional |-> Len(INDEX_ITEMS_DEFINED),
   num_reversed_total |-> SumOver([k \in DOMAIN dimensions |-> dimensions[k].num_reversed], DOMAIN dimensions),
   likert_min |-> LIKERT_MIN,
   likert_max |-> LIKERT_MAX,
   score_min |-> 0,
   score_max |-> 100]

\* One call of compute_profile, step by step: what it returns or raises
\* (outcome) and the engine functions it entered, in call order (calls).
\* Each function is entered only when every earlier one returned.
profile_built(d, id, dimensions, additional, quality) ==
  [outcome |-> IF Raised(quality) THEN quality
               ELSE Return([id |-> id,
                            dimensions |-> dimensions.result,
                            additional_indices |-> additional.result,
                            response_quality |-> quality.result,
                            meta |-> profile_meta(d, dimensions.result)]),
   calls |-> <<"validate_ratings", "compute_dimension_scores",
               "compute_additional_indices", "check_response_quality">>]

after_additional(d, id, dimensions, additional) ==
  IF Raised(additional)
  THEN [outcome |-> additional,
        calls |-> <<"validate_ratings", "compute_dimension_scores",
                    "compute_additional_indices">>]
  ELSE profile_built(d, id, dimensions, additional, check_response_quality(d))

after_dimensions(d, id, dimensions) ==
  IF Raised(dimensions)
  THEN [outcome |-> dimensions,
        calls |-> <<"validate_ratings", "compute_dimension_scores">>]
  ELSE after_additional(d, id, dimensions, compute_additional_indices(d))

\* Mutant: only a ValueError of the validation stops the computation.
after_validate_value_errors_only(d, id, valid) ==
  IF valid.kind = "ValueError" THEN [outcome |-> valid, calls |-> <<"validate_ratings">>]
  ELSE after_dimensions(d, id, compute_dimension_scores(d))

after_validate(d, id, valid) ==
  IF Raised(valid) THEN [outcome |-> valid, calls |-> <<"validate_ratings">>]
  ELSE after_dimensions(d, id, compute_dimension_scores(d))

compute_profile_run(d, id) == after_validate(d, id, validate_ratings(d))

compute_profile(d, id) == compute_profile_run(d, id).outcome

-----------------------------------------------------------------------------------------------------------------------------------------------------
(* The caller: builds a rating dict, then calls the engine once *)

\* Codes whose rating the caller overwrites: a reverse-scored main item
\* (A2), the last main item (R12), an avoidance item (M9).
SetCodes == {"A2", "R12", "M9"}

\* Codes the caller deletes: two main items whose dict order differs from
\* their string order (A2, A10), a chronotype item and the two avoidance
\* items.
DelCodes == {"A2", "A10", "A8", "M2", "M9"}

\* The values given to a code the taxonomy does not know.
UnknownValues == {PyInt(3), PyStr3}

\* Codes whose rating changes in the scoring runs: a plain and a
\* reverse-scored main item, an avoidance and a chronotype item.
ScoreCodes == {"A1", "A2", "M9", "A8"}

\* The values validate_ratings accepts.
AcceptedValues == {v \in ValueDomain : ~Raised(entry_error([code |-> "A1", value |-> v]))}

ProfileIds == {"test", "None"}

\* The rating of the i-th item of a pattern that cycles through lo..hi in
\* blocks of step items; with flip, a respondent consistent with the trait:
\* a reverse-scored item gets the mirrored rating.
PatternRating(i, lo, hi, step, flip) ==
  LET v == lo + (((i - 1) \div step) % (hi - lo + 1))
  IN IF flip /\ ITEM_DEFINITIONS[i].reverse_scored THEN LIKERT_MIN + LIKERT_MAX - v ELSE v

\* A complete rating dict in taxonomy order: {code: rating for code in
\* ITEM_DEFINITIONS}.
BaseRatings(lo, hi, step, flip) ==
  [i \in DOMAIN ITEM_DEFINITIONS |->
     [code |-> ITEM_DEFINITIONS[i].code,
      value |-> PyInt(PatternRating(i, lo, hi, step, flip))]]

NotYetCalled ==
  /\ pc = "build"
  /\ op = ""
  /\ profile_id = "None"
  /\ outcome = NotCalled
  /\ stages = <<>>
  /\ edits = 0
  /\ arg = NoResult
  /\ earlier = NoCall

\* Any caller: starts from a constant complete rating dict.
Init ==
  /\ \E v \in LIKERT_MIN..LIKERT_MAX : ratings = BaseRatings(v, v, 1, FALSE)
  /\ csv_file = NoFile
  /\ orch = NoOrchestrator
  /\ fs = NoOutput
  /\ NotYetCalled

\* A caller with valid ratings: starts from a patterned complete rating dict.
InitScoring ==
  /\ \E lo \in LIKERT_MIN..LIKERT_MAX, hi \in LIKERT_MIN..LIKERT_MAX,
        step \in 1..MaxStep, flip \in BOOLEAN :
       /\ lo <= hi
       /\ ratings = BaseRatings(lo, hi, step, flip)
  /\ csv_file = NoFile
  /\ orch = NoOrchestrator
  /\ fs = NoOutput
  /\ NotYetCalled

\* ratings[code] = value
SetRating(code, value) ==
  /\ pc = "build"
  /\ ratings' = DictSet(ratings, code, value)
  /\ edits' = edits + 1
  /\ UNCHANGED <<pc, op, profile_id, outcome, stages, arg, earlier>>
  /\ UNCHANGED io_vars

\* del ratings[code]
DelRating(code) ==
  /\ pc = "build"
  /\ Has(ratings, code)
  /\ ratings' = DictDel(ratings, code)
  /\ edits' = edits + 1
  /\ UNCHANGED <<pc, op, profile_id, outcome, stages, arg, earlier>>
  /\ UNCHANGED io_vars

\* A validate_ratings that repairs what it checks: every key absent from
\* the taxonomy is dropped from the caller's dict.
CallValidate_drops_unknown ==
  /\ pc = "build"
  /\ pc' = "done"
  /\ op' = "validate_ratings"
  /\ outcome' = validate_ratings(ratings)
  /\ stages' = <<"validate_ratings">>
  /\ ratings' = SelectSeq(ratings, LAMBDA e : e.code \in TaxonomyCodes)
  /\ UNCHANGED <<profile_id, edits, arg, earlier>>
  /\ UNCHANGED io_vars

\* validate_ratings(ratings)
CallValidate ==
  /\ pc = "build"
  /\ pc' = "done"
  /\ op' = "validate_ratings"
  /\ outcome' = validate_ratings(ratings)
  /\ stages' = <<"validate_ratings">>
  /\ UNCHANGED <<ratings, profile_id, edits, arg, earlier>>
  /\ UNCHANGED io_vars

\* compute_profile(ratings, id)
CallComputeProfile(id) ==
  /\ pc = "build"
  /\ pc' = "done"
  /\ op' = "compute_profile"
  /\ profile_id' = id
  /\ LET run == compute_profile_run(ratings, id)
     IN /\ outcome' = run.outcome
        /\ stages' = run.calls
  /\ UNCHANGED <<ratings, edits, arg, earlier>>
  /\ UNCHANGED io_vars

\* compute_chronotype_index(ratings)
CallChronotype ==
  /\ pc = "build"
  /\ pc' = "done"
  /\ op' = "compute_chronotype_index"
  /\ outcome' = compute_chronotype_index(ratings)
  /\ stages' = <<"compute_chronotype_index">>
  /\ UNCHANGED <<ratings, profile_id, edits, arg, earlier>>
  /\ UNCHANGED io_vars

\* compute_additional_indices(ratings)
CallAdditional ==
  /\ pc = "build"
  /\ pc' = "done"
  /\ op' = "compute_additional_indices"
  /\ outcome' = compute_additional_indices(ratings)
  /\ stages' = <<"compute_additional_indices">>
  /\ UNCHANGED <<ratings, profile_id, edits, arg, earlier>>
  /\ UNCHANGED io_vars

Next ==
  \/ /\ edits < MaxEdits
     /\ \E code \in SetCodes, value \in ValueDomain : SetRating(code, value)
  \/ /\ edits < MaxEdits
     /\ \E code \in UnknownCodes, value \in UnknownValues : SetRating(code, value)
  \/ /\ edits < MaxEdits
     /\ \E code \in DelCodes : DelRating(code)
  \/ CallValidate
  \/ CallChronotype
  \/ CallAdditional
  \/ \E id \in ProfileIds : CallComputeProfile(id)

Spec == Init /\ [][Next]_vars

NextScoring ==
  \/ /\ edits < MaxChanges
     /\ \E code \in ScoreCodes, value \in AcceptedValues : SetRating(code, value)
  \/ CallComputeProfile("test")

SpecScoring == InitScoring /\ [][NextScoring]_vars

-----------------------------------------------------------------------------
(* A caller that calls compute_profile twice *)

\* Codes the caller touches between and before the calls: a reverse-scored
\* main item early in the dict and the last main item.
RepeatCodes == {"A2", "R12"}

\* The malformed values it writes: an integer out of range and a string.
RepeatValues == {PyInt(0), PyStr3}

InitRepeat ==
  /\ ratings = BaseRatings(3, 3, 1, FALSE)
  /\ csv_file = NoFile
  /\ orch = NoOrchestrator
  /\ fs = NoOutput
  /\ NotYetCalled

\* ratings[code] = ratings.pop(code): the same rating, inserted last, as when
\* the rows of the answer file come in another order.
MoveToEnd(code) ==
  /\ pc = "build"
  /\ Has(ratings, code)
  /\ ratings' = DictSet(DictDel(ratings, code), code, Get(ratings, code))
  /\ edits' = edits + 1
  /\ UNCHANGED <<pc, op, profile_id, outcome, stages, arg, earlier>>
  /\ UNCHANGED io_vars

\* The caller keeps the result of its first call and goes on with the same
\* dict towards a second call.
CallAgain ==
  /\ pc = "done"
  /\ op = "compute_profile"
  /\ earlier = NoCall
  /\ earlier' = CallRecord(op, ratings, profile_id, arg, outcome)
  /\ pc' = "build"
  /\ op' = ""
  /\ outcome' = NotCalled
  /\ stages' = <<>>
  /\ UNCHANGED <<ratings, profile_id, edits, arg>>
  /\ UNCHANGED io_vars

NextRepeat ==
  \/ /\ edits < MaxRepeatEdits
     /\ \E code \in RepeatCodes, value \in RepeatValues : SetRating(code, value)
  \/ /\ edits < MaxRepeatEdits
     /\ \E code \in RepeatCodes : MoveToEnd(code)
  \/ /\ edits < MaxRepeatEdits
     /\ DelRating("M9")
  \/ \E id \in ProfileIds : CallComputeProfile(id)
  \/ CallAgain

SpecRepeat == InitRepeat /\ [][NextRepeat]_vars

-----------------------------------------------------------------------------
(* A caller that computes a profile, changes one answer and computes again *)

InitChange ==
  /\ \E lo \in LIKERT_MIN..LIKERT_MAX, hi \in LIKERT_MIN..LIKERT_MAX :
       /\ lo <= hi
       /\ ratings = BaseRatings(lo, hi, 1, FALSE)
  /\ csv_file = NoFile
  /\ orch = NoOrchestrator
  /\ fs = NoOutput
  /\ NotYetCalled

\* The items whose answer is changed: a plain and a reverse-scored main
\* item of attention, the last main item, a morning and an evening item of
\* the chronotype index, an avoidance item.
NextChange ==
  \/ CallComputeProfile("test")
  \/ CallAgain
  \/ /\ earlier # NoCall
     /\ edits < MaxSecondEdits
     /\ \E code \in {"A1", "A2", "R12", "A8", "A9", "M9"}, v \in LIKERT_MIN..LIKERT_MAX :
          SetRating(code, PyInt(v))

SpecChange == InitChange /\ [][NextChange]_vars

-----------------------------------------------------------------------------
(* A caller of load_ratings_from_csv: main() with an answer file *)

\* Rows a respondent or an export adds: known codes (one with blanks around
\* it), an unknown code and an empty code, with a valid and an invalid
\* rating; a text that is no number; a signed number with blanks around it;
\* a row too short to have a rating.
AddedRows ==
  {Row(c, r) : c \in {Cell("A1", FALSE), Cell("A2", TRUE), Cell("Z99", FALSE), Cell("", TRUE)},
               r \in {Cell("3", FALSE), Cell("0", FALSE)}}
    \cup {Row(Cell("A1", FALSE), Cell("x", FALSE)),
          Row(Cell("A2", FALSE), Cell("+3", TRUE)),
          Row(Cell("A1", FALSE), [text |-> "", pad |-> FALSE, none |-> TRUE])}

\* A complete answer file: one row per item in taxonomy order, all with
\* the same rating.
InitLoader ==
  /\ ratings = <<>>
  /\ \E v \in {"2", "4"} :
       csv_file = [has_columns |-> TRUE,
                   rows |-> [i \in DOMAIN ITEM_DEFINITIONS |->
                               Row(Cell(ITEM_DEFINITIONS[i].code, FALSE), Cell(v, FALSE))]]
  /\ orch = NoOrchestrator
  /\ fs = NoOutput
  /\ NotYetCalled

\* A row is added in front of the k-th row (k = Len + 1: at the end).
InsertRow(k, row) ==
  /\ pc = "build"
  /\ k \in 1..(Len(csv_file.rows) + 1)
  /\ csv_file' = [csv_file EXCEPT !.rows =
                    SubSeq(@, 1, k - 1) \o <<row>> \o SubSeq(@, k, Len(@))]
  /\ edits' = edits + 1
  /\ UNCHANGED <<ratings, pc, op, profile_id, outcome, stages, arg, earlier, orch, fs>>

\* The k-th row is taken out.
DeleteRow(k) ==
  /\ pc = "build"
  /\ k \in 1..Len(csv_file.rows)
  /\ csv_file' = [csv_file EXCEPT !.rows = SubSeq(@, 1, k - 1) \o SubSeq(@, k + 1, Len(@))]
  /\ edits' = edits + 1
  /\ UNCHANGED <<ratings, pc, op, profile_id, outcome, stages, arg, earlier, orch, fs>>

\* The header loses one of the columns item_code, rating.
RenameColumn ==
  /\ pc = "build"
  /\ csv_file.has_columns
  /\ csv_file' = [csv_file EXCEPT !.has_columns = FALSE]
  /\ edits' = edits + 1
  /\ UNCHANGED <<ratings, pc, op, profile_id, outcome, stages, arg, earlier, orch, fs>>

\* ratings = load_ratings_from_csv(input_path)
CallLoad ==
  /\ pc = "build"
  /\ pc' = "done"
  /\ op' = "load_ratings_from_csv"
  /\ LET run == load_ratings_from_csv_run(csv_file)
     IN /\ outcome' = run.outcome
        /\ stages' = <<"load_ratings_from_csv", run.stage>>
        /\ ratings' = run.ratings
        /\ arg' = [row_num |-> run.row_num]
  /\ UNCHANGED <<profile_id, edits, earlier, csv_file, orch, fs>>

NextLoader ==
  \/ /\ edits < MaxFileEdits
     /\ \E row \in AddedRows : InsertRow(1, row) \/ InsertRow(Len(csv_file.rows) + 1, row)
  \/ /\ edits < MaxFileEdits
     /\ \E k \in {1, 2} : DeleteRow(k)
  \/ /\ edits < MaxFileEdits
     /\ RenameColumn
  \/ CallLoad

SpecLoader == InitLoader /\ [][NextLoader]_vars

-----------------------------------------------------------------------------
(* The orchestrator: LernprofilOrchestrator *)

WORKFLOWS ==
  [minimal |-> <<"compute">>,
   basic |-> <<"compute">>,
   full |-> <<"compute", "visualize">>,
   validate |-> <<"test", "validation">>]

\* The stage_name each stage method gives its StageResult.
StageName(stage) ==
  CASE stage = "compute" -> "Profil-Berechnung"
    [] stage = "visualize" -> "Visualisierung"
    [] stage = "test" -> "Unit-Tests"
    [] stage = "validation" -> "Validierung"

NoPath == [base |-> "", name |-> 0, file |-> ""]

StageResult(stage_name, success, error_message, output_dir) ==
  [stage_name |-> stage_name, success |-> success,
   error_message |-> error_message, output_dir |-> output_dir]

\* A script run through subprocess.run ends with exit code 0 ("exit0"),
\* another exit code ("exit1") or not within the timeout ("timeout").
run_subprocess(stage_name, run) ==
  CASE run = "exit0" -> StageResult(stage_name, TRUE, "None", NoPath)
    [] run = "exit1" -> StageResult(stage_name, FALSE, "stderr", NoPath)
    [] run = "timeout" -> StageResult(stage_name, FALSE, "Timeout", NoPath)

\* Two names denote the same directory entry: equal, or equal up to case on
\* a file system that ignores case.
SameEntry(fsys, a, b) ==
  LET Lower(name) == IF name = "Auswertung" THEN "auswertung" ELSE name
  IN a = b \/ (~fsys.case_sensitive /\ Lower(a) = Lower(b))

\* path.exists() for a file path base/name/file
Exists(fsys, path) ==
  \E d \in fsys.dirs :
    SameEntry(fsys, d.base, path.base) /\ d.name = path.name /\ path.file \in d.files

\* The script auswertung.py run with --output profil.json --report
\* bericht.txt: on success it has made Auswertung/<timestamp>/ with both
\* files; on an error or a timeout it ended before the mkdir.  A directory
\* is base/name with its files; name is the timestamp, the time counted in
\* runs of a script.
auswertung_main(fsys, run) ==
  [fsys EXCEPT !.now = @ + 1,
               !.dirs = IF run = "exit0"
                        THEN @ \cup {[base |-> "Auswertung", name |-> fsys.now,
                                       files |-> {"profil.json", "bericht.txt"}]}
                        ELSE @]

\* The script auswertung_visualize.py: on success it has made
\* charts/<timestamp>/.
visualize_main(fsys, run) ==
  [fsys EXCEPT !.now = @ + 1,
               !.dirs = IF run = "exit0"
                        THEN @ \cup {[base |-> "charts", name |-> fsys.now,
                                       files |-> {"report.html"}]}
                        ELSE @]

\* _find_latest_subdir(Path.cwd() / base): the subdirectory with the
\* greatest name, as a path under the base asked for; NoPath for None.
find_latest_subdir(fsys, base) ==
  LET subdirs == {d \in fsys.dirs : SameEntry(fsys, d.base, base)}
  IN IF subdirs = {} THEN NoPath
     ELSE [base |-> base,
           name |-> (CHOOSE d \in subdirs : \A e \in subdirs : e.name <= d.name).name,
           file |-> ""]

\* What a stage method hands back: the orchestrator with the paths it set,
\* the file system the script left, and the StageResult.
Staged(o, fsys, result) == [orch |-> o, fs |-> fsys, result |-> result]

\* The part of _stage_compute after a successful run, for the directory
\* _find_latest_subdir gave.
compute_located(o, fsys, result, latest_dir) ==
  IF latest_dir = NoPath THEN Staged(o, fsys, result)
  ELSE IF Exists(fsys, [latest_dir EXCEPT !.file = "profil.json"])
  THEN Staged([o EXCEPT !.profil_json_path = [latest_dir EXCEPT !.file = "profil.json"]],
              fsys, [result EXCEPT !.output_dir = latest_dir])
  ELSE Staged(o, fsys, [result EXCEPT !.output_dir = latest_dir])

stage_compute(o, fsys, run) ==
  IF run_subprocess("Profil-Berechnung", run).success
  THEN compute_located(o, auswertung_main(fsys, run), run_subprocess("Profil-Berechnung", run),
                       find_latest_subdir(auswertung_main(fsys, run), "auswertung"))
  ELSE Staged(o, auswertung_main(fsys, run), run_subprocess("Profil-Berechnung", run))

stage_visualize(o, fsys, run) ==
  IF o.profil_json_path = NoPath \/ ~Exists(fsys, o.profil_json_path)
  THEN Staged(o, fsys,
              StageResult("Visualisierung", FALSE,
                          "profil.json nicht gefunden (Stage compute fehlgeschlagen?)", NoPath))
  ELSE IF run_subprocess("Visualisierung", run).success
  THEN IF find_latest_subdir(visualize_main(fsys, run), "charts") = NoPath
       THEN Staged(o, visualize_main(fsys, run), run_subprocess("Visualisierung", run))
       ELSE Staged([o EXCEPT !.charts_dir =
                      find_latest_subdir(visualize_main(fsys, run), "charts")],
                   visualize_main(fsys, run),
                   [run_subprocess("Visualisierung", run) EXCEPT !.output_dir =
                      find_latest_subdir(visualize_main(fsys, run), "charts")])
  ELSE Staged(o, visualize_main(fsys, run), run_subprocess("Visualisierung", run))

\* The scripts of the stages test and validation write no directory.
stage_test(o, fsys, run) ==
  Staged(o, [fsys EXCEPT !.now = @ + 1], run_subprocess("Unit-Tests", run))

stage_validation(o, fsys, run) ==
  Staged(o, [fsys EXCEPT !.now = @ + 1], run_subprocess("Validierung", run))

\* getattr(self, f'_stage_{stage}')()
stage_method(stage, o, fsys, run) ==
  CASE stage = "compute" -> stage_compute(o, fsys, run)
    [] stage = "visualize" -> stage_visualize(o, fsys, run)
    [] stage = "test" -> stage_test(o, fsys, run)
    [] stage = "validation" -> stage_validation(o, fsys, run)

\* _write_session_index: the file session_<session_timestamp>.json is
\* written anew with one entry per element of self.results.
write_session_index(o) ==
  [o EXCEPT !.index = [stages |-> [i \in DOMAIN o.results |->
                                     [name |-> o.results[i].stage_name,
                                      success |-> o.results[i].success,
                                      output_dir |-> o.results[i].output_dir,
                                      error_message |-> o.results[i].error_message]],
                       profil_json |-> o.profil_json_path],
            !.trace = Append(@, "index")]

\* return value from run_workflow
returns(o, value) == [o EXCEPT !.pc = "returned", !.returned = value, !.todo = <<>>]

\* Mutant: a failed stage does not end the workflow.
after_stage_goes_on(o, result) ==
  IF Len(o.todo) = 1
  THEN returns(write_session_index([o EXCEPT !.results = Append(@, result)]),
               IF result.success THEN "True" ELSE "False")
  ELSE [o EXCEPT !.results = Append(@, result), !.todo = Tail(@)]

\* Mutant: the index is written at the end of a successful workflow only.
after_stage_index_at_end(o, result) ==
  IF ~result.success
  THEN returns([o EXCEPT !.results = Append(@, result)], "False")
  ELSE IF Len(o.todo) = 1
  THEN returns(write_session_index([o EXCEPT !.results = Append(@, result)]), "True")
  ELSE [o EXCEPT !.results = Append(@, result), !.todo = Tail(@)]

\* The body of the loop of run_workflow after stage_method() has returned
\* result, and the end of the function when the loop is through; o.todo
\* holds the stages from the current one on.
after_stage(o, result) ==
  IF ~result.success
  THEN returns(write_session_index([o EXCEPT !.results = Append(@, result)]), "False")
  ELSE IF Len(o.todo) = 1
  THEN returns(write_session_index([o EXCEPT !.results = Append(@, result)]), "True")
  ELSE [o EXCEPT !.results = Append(@, result), !.todo = Tail(@)]

\* Mutant: run_workflow starts with an empty list of results.
enter_workflow_fresh_results(o, name) ==
  IF name \notin DOMAIN WORKFLOWS
  THEN returns([o EXCEPT !.workflow = name, !.trace = <<>>, !.calls = @ + 1], "False")
  ELSE [o EXCEPT !.pc = "running", !.workflow = name, !.todo = WORKFLOWS[name],
                 !.trace = <<>>, !.returned = "", !.calls = @ + 1, !.results = <<>>]

\* The head of run_workflow(name). trace is the record the model keeps of
\* what this call has done: the stages started and the index writes, in
\* order; session is the record of the stages started since construction.
enter_workflow(o, name) ==
  IF name \notin DOMAIN WORKFLOWS
  THEN returns([o EXCEPT !.workflow = name, !.trace = <<>>, !.calls = @ + 1], "False")
  ELSE [o EXCEPT !.pc = "running", !.workflow = name, !.todo = WORKFLOWS[name],
                 !.trace = <<>>, !.returned = "", !.calls = @ + 1]

\* The session index file does not exist yet.
NoIndex == [stages |-> <<>>, profil_json |-> NoPath]

\* LernprofilOrchestrator(config): used through main() with --workflow or
\* a caller of run_workflow ("call"), or through interactive_menu ("menu").
NewOrchestrator(mode) ==
  [pc |-> "ready", mode |-> mode, workflow |-> "", todo |-> <<>>, trace |-> <<>>,
   session |-> <<>>,
   results |-> <<>>, index |-> NoIndex, returned |-> "", calls |-> 0,
   profil_json_path |-> NoPath, charts_dir |-> NoPath]

engine_vars == <<ratings, pc, op, profile_id, outcome, stages, edits, arg, earlier, csv_file>>

InitOrchestrator ==
  /\ ratings = <<>>
  /\ csv_file = NoFile
  /\ NotYetCalled
  /\ \E mode \in {"call", "menu"} : orch = NewOrchestrator(mode)
  /\ \E cs \in BOOLEAN : fs = [case_sensitive |-> cs, dirs |-> {}, now |-> 1]

\* run_workflow(name) is entered; the menu's workflow_map holds the four
\* names of WORKFLOWS, another caller may pass any name.
EnterWorkflow(name) ==
  /\ orch.pc = "ready"
  /\ orch.calls < MaxWorkflows
  /\ orch.mode = "menu" => name \in DOMAIN WORKFLOWS
  /\ orch' = enter_workflow(orch, name)
  /\ UNCHANGED fs
  /\ UNCHANGED engine_vars

\* One turn of the loop of run_workflow: the stage runs, its script ending
\* in one of the three ways, and the loop goes on or the call returns.
RunStage(run) ==
  /\ orch.pc = "running"
  /\ LET stage == Head(orch.todo)
         started == [orch EXCEPT !.trace = Append(@, stage), !.session = Append(@, stage)]
         staged == stage_method(stage, started, fs, run)
     IN /\ orch' = after_stage(staged.orch, staged.result)
        /\ fs' = staged.fs
  /\ UNCHANGED engine_vars

\* interactive_menu after run_workflow returned: on success the user is
\* asked for another workflow, otherwise the menu ends.
MenuAgain(again) ==
  /\ orch.pc = "returned"
  /\ orch.mode = "menu"
  /\ orch' = [orch EXCEPT !.pc = IF orch.returned = "True" /\ again = "j"
                                 THEN "ready" ELSE "exited"]
  /\ UNCHANGED fs
  /\ UNCHANGED engine_vars

\* The menu choice Q.
MenuQuit ==
  /\ orch.pc = "ready"
  /\ orch.mode = "menu"
  /\ orch' = [orch EXCEPT !.pc = "exited"]
  /\ UNCHANGED fs
  /\ UNCHANGED engine_vars

\* main(): return 0 if success else 1
Exit ==
  /\ orch.pc = "returned"
  /\ orch.mode = "call"
  /\ orch' = [orch EXCEPT !.pc = "exited"]
  /\ UNCHANGED fs
  /\ UNCHANGED engine_vars

NextOrchestrator ==
  \/ \E name \in DOMAIN WORKFLOWS \cup {"unknown"} : EnterWorkflow(name)
  \/ \E run \in {"exit0", "exit1", "timeout"} : RunStage(run)
  \/ \E again \in {"j", "n"} : MenuAgain(again)
  \/ MenuQuit
  \/ Exit

SpecOrchestrator == InitOrchestrator /\ [][NextOrchestrator]_vars

-----------------------------------------------------------------------------
(* A caller of the two kernel functions, with arguments of its own *)

\* The arguments tried on reverse_likert: the values of ValueDomain and the
\* negative integers.
KernelValues == ValueDomain \cup {PyInt(0 - n) : n \in 1..MaxInt}

\* The arguments tried on classify_score: every float with one decimal
\* from below 0 to above 100, the int cutoffs, and two values that are no
\* numbers.
ScoreArgs ==
  {PyScore(Rat(n, 10)) : n \in (0 - MaxOver)..(1000 + MaxOver)}
    \cup {[t |-> "int", q |-> Rat(n, 1)] : n \in {0, 40, 75, 100, 101}}
    \cup {[t |-> "str", q |-> Rat(50, 1)], [t |-> "NoneType", q |-> Rat(0, 1)]}

InitKernel ==
  /\ ratings = <<>>
  /\ csv_file = NoFile
  /\ orch = NoOrchestrator
  /\ fs = NoOutput
  /\ NotYetCalled

\* reverse_likert(value)
CallReverseLikert(value) ==
  /\ pc = "build"
  /\ pc' = "done"
  /\ op' = "reverse_likert"
  /\ arg' = value
  /\ outcome' = reverse_likert(value)
  /\ stages' = <<"reverse_likert">>
  /\ UNCHANGED <<ratings, profile_id, edits, earlier>>
  /\ UNCHANGED io_vars

\* reverse_likert(reverse_likert(value)): the second call, on the value the
\* first one returned.
CallReverseLikertAgain ==
  /\ pc = "done"
  /\ op = "reverse_likert"
  /\ outcome.kind = "return"
  /\ earlier = NoCall
  /\ earlier' = CallRecord(op, ratings, profile_id, arg, outcome)
  /\ arg' = PyInt(outcome.result)
  /\ outcome' = reverse_likert(PyInt(outcome.result))
  /\ stages' = <<"reverse_likert", "reverse_likert">>
  /\ UNCHANGED <<ratings, pc, op, profile_id, edits>>
  /\ UNCHANGED io_vars

\* classify_score(score)
CallClassifyScore(score) ==
  /\ pc = "build"
  /\ pc' = "done"
  /\ op' = "classify_score"
  /\ arg' = score
  /\ outcome' = classify_score(score)
  /\ stages' = <<"classify_score">>
  /\ UNCHANGED <<ratings, profile_id, edits, earlier>>
  /\ UNCHANGED io_vars

NextKernel ==
  \/ \E value \in KernelValues : CallReverseLikert(value)
  \/ CallReverseLikertAgain
  \/ \E score \in ScoreArgs : CallClassifyScore(score)

SpecKernel == InitKernel /\ [][NextKernel]_vars

-----------------------------------------------------------------------------
(* Properties *)

Called(f) == pc = "done" /\ op = f

Returned(f) == Called(f) /\ outcome.kind = "return"

\* The codes of the taxonomy the dict lacks and the codes of the dict the
\* taxonomy lacks, read off the state.
MissingNow == {c \in TaxonomyCodes : \A i \in DOMAIN ratings : ratings[i].code # c}

ExtraNow == {ratings[i].code : i \in DOMAIN ratings} \ TaxonomyCodes

\* The named codes form a strictly increasing list of exactly the set S.
ListsSorted(codes, S) ==
  /\ Range(codes) = S
  /\ Len(codes) = Cardinality(S)
  /\ \A i \in DOMAIN codes : \A j \in DOMAIN codes :
       i < j => SeqLess(CodePoints[codes[i]], CodePoints[codes[j]])

\* A Python int (bool included) with a value in 1..5.
IntegerInRange(value) == value.t \in {"int", "bool"} /\ value.v \in 1..5

\* The positions of the dict whose value is not an integer in 1..5.
Offending == {i \in DOMAIN ratings : ~IntegerInRange(ratings[i].value)}

\* C1: the taxonomy has exactly 88 definitions with distinct codes, 80 of
\* them on the main scales and 8 not, 27 main-scale items are reverse-scored,
\* and every dimension_code is one of the exactly 6 keys of DIMENSION_LABELS;
\* this holds in every state of a caller, before and after the engine runs.
C1_TaxonomyInvariants ==
  LET items == Range(ITEM_DEFINITIONS)
  IN pc \in {"build", "done"} =>
     /\ Len(ITEM_DEFINITIONS) = 88
     /\ Cardinality({it.code : it \in items}) = 88
     /\ Cardinality({it \in items : it.include_in_main_scale}) = 80
     /\ Cardinality({it \in items : ~it.include_in_main_scale}) = 8
     /\ Cardinality({it \in items : it.include_in_main_scale /\ it.reverse_scored}) = 27
     /\ Cardinality(DOMAIN DIMENSION_LABELS) = 6
     /\ \A it \in items : it.dimension_code \in DOMAIN DIMENSION_LABELS
     /\ Len(MAIN_ITEMS_DEFINED) = 80
     /\ Len(INDEX_ITEMS_DEFINED) = 8

\* C1 witness: the engine has scored a complete rating set against the
\* loaded taxonomy and reports its 88 items.
C1_Witness ==
  /\ Returned("compute_profile")
  /\ outcome.result.meta.num_items_instrument = 88
  /\ \A dim \in DOMAIN DIMENSION_LABELS : dim \in DOMAIN outcome.result.dimensions

\* C2: when the dict lacks a taxonomy code, validate_ratings raises the
\* ValueError "Fehlende Items" listing exactly the lacking codes, sorted.
C2_MissingListedSorted ==
  (Called("validate_ratings") /\ MissingNow # {}) =>
     /\ outcome.kind = "ValueError"
     /\ outcome.msg = "Fehlende Items"
     /\ ListsSorted(outcome.codes, MissingNow)

\* C2 witness: A2 and A10 were deleted; the error lists A10 before A2.
C2_Witness ==
  /\ Called("validate_ratings")
  /\ MissingNow = {"A2", "A10"}
  /\ outcome.codes = <<"A10", "A2">>

\* C3: when the dict has all 88 taxonomy codes and some unknown code,
\* validate_ratings raises the ValueError "Unbekannte Items" naming exactly
\* the unknown codes.
C3_ExtraListed ==
  (Called("validate_ratings") /\ MissingNow = {} /\ ExtraNow # {}) =>
     /\ outcome.kind = "ValueError"
     /\ outcome.msg = "Unbekannte Items"
     /\ ListsSorted(outcome.codes, ExtraNow)

\* C3 witness: Z99 and A17 were added to a complete dict.
C3_Witness ==
  /\ Called("validate_ratings")
  /\ MissingNow = {}
  /\ ExtraNow = {"Z99", "A17"}
  /\ outcome.msg = "Unbekannte Items"

\* C4: validate_ratings reports the first violation class only, in the
\* order missing, extra, per-entry: with a missing code the error is
\* "Fehlende Items" whatever else is wrong, and with no missing but an
\* unknown code it is "Unbekannte Items" even when a value is malformed.
C4_FirstViolationClass ==
  Called("validate_ratings") =>
     /\ MissingNow # {} => (outcome.kind = "ValueError" /\ outcome.msg = "Fehlende Items")
     /\ (MissingNow = {} /\ ExtraNow # {}) =>
          (outcome.kind = "ValueError" /\ outcome.msg = "Unbekannte Items")
     /\ outcome.msg \in {"ist kein int", "ausserhalb des erlaubten Bereichs"} =>
          (MissingNow = {} /\ ExtraNow = {})

\* C4 witness: a dict that lacks a code and holds an unknown code.
C4_Witness ==
  /\ Called("validate_ratings")
  /\ MissingNow # {}
  /\ ExtraNow # {}
  /\ outcome.msg = "Fehlende Items"

\* C5: on a dict with exactly the 88 taxonomy codes validate_ratings returns
\* iff every value is an integer in 1..5; otherwise it raises for the first
\* offending entry, naming its code: TypeError when the value is no integer,
\* ValueError when it is an integer outside 1..5.
C5_EntryCheck ==
  (Called("validate_ratings") /\ MissingNow = {} /\ ExtraNow = {}) =>
     /\ outcome.kind = "return" <=> Offending = {}
     /\ Offending # {} =>
          LET e == ratings[Min(Offending)]
          IN /\ outcome.codes = <<e.code>>
             /\ e.value.t \notin {"int", "bool"} =>
                  (outcome.kind = "TypeError" /\ outcome.msg = "ist kein int")
             /\ e.value.t \in {"int", "bool"} =>
                  (outcome.kind = "ValueError"
                   /\ outcome.msg = "ausserhalb des erlaubten Bereichs")

\* C5 witness: the codes are complete, R12 holds an integer out of range
\* and the earlier entry A2 holds a non-integer, which is the one reported.
C5_Witness ==
  /\ Called("validate_ratings")
  /\ MissingNow = {} /\ ExtraNow = {}
  /\ Cardinality(Offending) = 2
  /\ outcome.kind = "TypeError"
  /\ outcome.codes = <<"A2">>

\* C6: when validate_ratings rejects the dict, compute_profile raises that
\* same error, enters no other engine function and returns no profile.
C6_ValidationErrorPropagates ==
  (Called("compute_profile") /\ (MissingNow # {} \/ ExtraNow # {} \/ Offending # {})) =>
     /\ Raised(outcome)
     /\ outcome = validate_ratings(ratings)
     /\ stages = <<"validate_ratings">>
     /\ outcome.result = NoResult

\* C6 witness: compute_profile was called with a non-integer rating.
C6_Witness ==
  /\ Called("compute_profile")
  /\ MissingNow = {} /\ ExtraNow = {}
  /\ outcome.kind = "TypeError"

\* C7: for a dict validate_ratings accepts, compute_profile returns a
\* profile with the keys id, dimensions, additional_indices,
\* response_quality and meta, all 6 dimensions and both indices, whatever
\* the quality flag.
C7_ValidInputReturnsProfile ==
  (Called("compute_profile") /\ MissingNow = {} /\ ExtraNow = {} /\ Offending = {}) =>
     /\ outcome.kind = "return"
     /\ stages = <<"validate_ratings", "compute_dimension_scores",
                   "compute_additional_indices", "check_response_quality">>
     /\ DOMAIN outcome.result =
          {"id", "dimensions", "additional_indices", "response_quality", "meta"}
     /\ DOMAIN outcome.result.dimensions = DOMAIN DIMENSION_LABELS
     /\ DOMAIN outcome.result.additional_indices = {"chronotype", "motivation_avoidance"}
     /\ outcome.result.response_quality.quality_flag \in {"ok", "check"}

\* C7 witness: a profile was returned for a dict that holds True as the
\* rating of the reverse-scored item A2, with quality flag "ok".
C7_Witness ==
  /\ Returned("compute_profile")
  /\ Get(ratings, "A2") = PyTrue
  /\ outcome.result.response_quality.quality_flag = "ok"

\* The main-scale codes of a dimension and the sum of their reverse-coded
\* ratings, read off the taxonomy and the dict.
MainCodes(dim) ==
  {it.code : it \in {x \in Range(ITEM_DEFINITIONS) :
                       x.include_in_main_scale /\ x.dimension_code = dim}}

CodedRating(c) ==
  IF ItemDef(c).reverse_scored THEN 6 - Get(ratings, c).v ELSE Get(ratings, c).v

CodedSum(dim) == SumOver([c \in MainCodes(dim) |-> CodedRating(c)], MainCodes(dim))

Abs(x) == IF x < 0 THEN -x ELSE x

\* C8: each dimension score (in tenths) is (m - 1) / 4 * 100 rounded to one
\* decimal, m the mean over exactly the dimension's main-scale items of
\* 6 - rating for reverse-scored items and rating for the others, and lies
\* in [0,100].  With n items and coded sum s the exact score in tenths is
\* 250 * (s - n) / n; rounding moves it by at most half a tenth.
C8_DimensionScore ==
  Returned("compute_profile") =>
     \A dim \in DOMAIN DIMENSION_LABELS :
        LET n == Cardinality(MainCodes(dim))
            r == outcome.result.dimensions[dim]
        IN /\ r.num_items = n
           /\ Range(r.items) = MainCodes(dim)
           /\ 2 * Abs(r.score * n - 250 * (CodedSum(dim) - n)) <= n
           /\ 0 <= r.score /\ r.score <= 1000

\* C8 witness: the executive score 43.75 was reported as 43.8, and A2 was
\* rated away from the midpoint so that its reverse-coding shows.
C8_Witness ==
  /\ Returned("compute_profile")
  /\ outcome.result.dimensions["executive"].score = 438
  /\ CodedSum("executive") = 44
  /\ Get(ratings, "A2").v # 3

\* The level the thresholds give for a score in tenths.
LevelOf(score) ==
  IF score < 400 THEN "niedrig" ELSE IF score < 750 THEN "mittel" ELSE "hoch"

\* C9: the level of every dimension and of the avoidance index is the one
\* the thresholds 40 and 75 give for the rounded score reported with it.
C9_LevelMatchesScore ==
  Returned("compute_profile") =>
     /\ \A dim \in DOMAIN outcome.result.dimensions :
          outcome.result.dimensions[dim].level = LevelOf(outcome.result.dimensions[dim].score)
     /\ "motivation_avoidance" \in DOMAIN outcome.result.additional_indices =>
          outcome.result.additional_indices["motivation_avoidance"].level
            = LevelOf(outcome.result.additional_indices["motivation_avoidance"].score)

\* C9 witness: a dimension scored exactly 40.0 is "mittel" and the
\* avoidance index scored exactly 75.0 is "hoch".
C9_Witness ==
  /\ Returned("compute_profile")
  /\ outcome.result.dimensions["attention"].score = 400
  /\ outcome.result.dimensions["attention"].level = "mittel"
  /\ outcome.result.additional_indices["motivation_avoidance"].score = 750
  /\ outcome.result.additional_indices["motivation_avoidance"].level = "hoch"

\* C10: the meta block of every returned profile holds the same counts and
\* bounds: 88 instrument items, 88 answered, 80 on the main scales (the sum
\* of the per-dimension num_items), 27 reversed (the sum of num_reversed),
\* 8 additional, Likert 1..5, scores 0..100.
C10_MetaConstant ==
  Returned("compute_profile") =>
     LET meta == outcome.result.meta
         dims == outcome.result.dimensions
     IN /\ meta.num_items_instrument = 88
        /\ meta.num_items_answered = 88
        /\ meta.num_items_main_scales = 80
        /\ meta.num_items_main_scales = SumOver([k \in DOMAIN dims |-> dims[k].num_items], DOMAIN dims)
        /\ meta.num_reversed_total = 27
        /\ meta.num_reversed_total = SumOver([k \in DOMAIN dims |-> dims[k].num_reversed], DOMAIN dims)
        /\ meta.num_items_additional = 8
        /\ meta.likert_min = 1 /\ meta.likert_max = 5
        /\ meta.score_min = 0 /\ meta.score_max = 100
        /\ meta.num_items_main_scales + meta.num_items_additional = meta.num_items_answered

\* C10 witness: a profile returned after the caller changed a rating.
C10_Witness ==
  /\ Returned("compute_profile")
  /\ edits > 0
  /\ outcome.result.meta.num_items_answered = 88

\* C11: for every integer v in 1..5, reverse_likert(v) = 6 - v, which is
\* again in 1..5 (1 gives 5, 3 gives 3, 5 gives 1), and reverse_likert
\* applied to that result gives v back.
C11_ReverseLikertInvolution ==
  Called("reverse_likert") /\ IsInstanceInt(arg) /\ arg.v \in 1..5 =>
    /\ outcome = Return(6 - arg.v)
    /\ outcome.result \in 1..5
    /\ arg.v = 1 => outcome.result = 5
    /\ arg.v = 3 => outcome.result = 3
    /\ arg.v = 5 => outcome.result = 1
    /\ earlier.op = "reverse_likert" =>
         /\ arg.v = earlier.outcome.result
         /\ outcome.result = earlier.arg.v

\* C11 witness: reverse_likert(reverse_likert(1)) has returned 1, by way of 5.
C11_Witness ==
  /\ Called("reverse_likert")
  /\ earlier.op = "reverse_likert"
  /\ earlier.arg = PyInt(1)
  /\ arg = PyInt(5)
  /\ outcome = Return(1)

\* C12: reverse_likert raises ValueError for every integer outside 1..5 and
\* TypeError for every value that is not an integer, and returns nothing
\* in either case.
C12_ReverseLikertRejects ==
  Called("reverse_likert") =>
    /\ IsInstanceInt(arg) /\ arg.v \notin 1..5 =>
         outcome.kind = "ValueError" /\ outcome.result = NoResult
    /\ ~IsInstanceInt(arg) =>
         outcome.kind = "TypeError" /\ outcome.result = NoResult

\* C12 witness: both failures occur, ValueError on the integer 6 here (the
\* TypeError on the float 3.0 is C12_WitnessType).
C12_Witness ==
  /\ Called("reverse_likert")
  /\ arg = PyInt(6)
  /\ outcome.kind = "ValueError"

C12_WitnessType ==
  /\ Called("reverse_likert")
  /\ arg = PyFloat3
  /\ outcome.kind = "TypeError"

\* C13: classify_score returns "niedrig" for every score in [0, 40),
\* "mittel" for every score in [40, 75) and "hoch" for every score in
\* [75, 100], and raises an error for a score outside [0, 100].
C13_ClassifyScoreBuckets ==
  Called("classify_score") /\ arg.t \in {"int", "float"} =>
    LET tenths == (arg.q.num * 10) \div arg.q.den
    IN /\ arg.q.num * 10 = tenths * arg.q.den
       /\ tenths \in 0..399 => outcome = Return("niedrig")
       /\ tenths \in 400..749 => outcome = Return("mittel")
       /\ tenths \in 750..1000 => outcome = Return("hoch")
       /\ tenths \notin 0..1000 => Raised(outcome) /\ outcome.result = NoResult

\* C13 witness: 39.9 has been classified as "niedrig".
C13_Witness ==
  /\ Called("classify_score")
  /\ arg = PyScore(Rat(399, 10))
  /\ outcome = Return("niedrig")

\* The dict rates every taxonomy code but those of absent with the integer
\* v, and holds nothing else.
AllRated(v, absent) ==
  /\ {ratings[i].code : i \in DOMAIN ratings} = TaxonomyCodes \ absent
  /\ \A i \in DOMAIN ratings : ratings[i].value = PyInt(v)

\* C14: for the rating set that gives 3 to each of the 88 codes,
\* compute_profile returns a profile in which each of the 6 dimension scores
\* lies in [45, 55].
C14_NeutralRatingsScoreMid ==
  Called("compute_profile") /\ AllRated(3, {}) =>
    /\ outcome.kind = "return"
    /\ DOMAIN outcome.result.dimensions = DOMAIN DIMENSION_LABELS
    /\ \A dim \in DOMAIN DIMENSION_LABELS :
         outcome.result.dimensions[dim].score \in 450..550

\* C14 witness: the all-3 rating set has been scored, with reverse-scored
\* items in every dimension, and every score is 50.0.
C14_Witness ==
  /\ Called("compute_profile")
  /\ AllRated(3, {})
  /\ outcome.kind = "return"
  /\ \A dim \in DOMAIN DIMENSION_LABELS :
       /\ outcome.result.dimensions[dim].num_reversed > 0
       /\ outcome.result.dimensions[dim].score = 500

\* The six chronotype items in the order the index looks them up, and the
\* positions in that order of the items the dict lacks.
ChronoItems == <<"A8", "A13", "A14", "A15", "A9", "A16">>

AbsentChrono == {i \in DOMAIN ChronoItems :
                   \A j \in DOMAIN ratings : ratings[j].code # ChronoItems[i]}

RawRating(code) == ratings[CHOOSE i \in DOMAIN ratings : ratings[i].code = code].value.v

BothAvoidancePresent ==
  \A code \in {"M2", "M9"} : \E i \in DOMAIN ratings : ratings[i].code = code

\* C17: for every rating set (values integers in 1..5) that holds the six
\* chronotype items, compute_additional_indices returns a result that
\* always holds chronotype and holds motivation_avoidance exactly when M2
\* and M9 are both in the set; its score is then the mean of the raw M2 and
\* M9 ratings rescaled to 0..100 (12.5 per rating point above 2).
C17_AdditionalIndices ==
  Called("compute_additional_indices") /\ AbsentChrono = {} /\ Offending = {} =>
    /\ outcome.kind = "return"
    /\ "chronotype" \in DOMAIN outcome.result
    /\ "motivation_avoidance" \in DOMAIN outcome.result <=> BothAvoidancePresent
    /\ DOMAIN outcome.result \subseteq {"chronotype", "motivation_avoidance"}
    /\ BothAvoidancePresent =>
         /\ outcome.result["motivation_avoidance"].score
              = 125 * (RawRating("M2") + RawRating("M9") - 2)
         /\ outcome.result["motivation_avoidance"].score \in 0..1000
         /\ outcome.result["motivation_avoidance"].items = <<"M2", "M9">>

\* C17 witness: with M2 = 3 and M9 = 4 the result holds both entries and the
\* avoidance score 62.5 (C17_WitnessOmitted: with M9 deleted it holds
\* chronotype alone).
C17_Witness ==
  /\ Called("compute_additional_indices")
  /\ AbsentChrono = {} /\ Offending = {}
  /\ BothAvoidancePresent
  /\ RawRating("M2") = 3 /\ RawRating("M9") = 4
  /\ outcome.kind = "return"
  /\ DOMAIN outcome.result = {"chronotype", "motivation_avoidance"}
  /\ outcome.result["motivation_avoidance"].score = 625

C17_WitnessOmitted ==
  /\ Called("compute_additional_indices")
  /\ AbsentChrono = {} /\ Offending = {}
  /\ \A j \in DOMAIN ratings : ratings[j].code # "M9"
  /\ \E j \in DOMAIN ratings : ratings[j].code = "M2"
  /\ outcome.kind = "return"
  /\ DOMAIN outcome.result = {"chronotype"}

\* C18 as stated: compute_profile on the rating set that gives 4 to every
\* code but M2 and M9, which are absent, returns a profile whose
\* additional_indices holds chronotype and no motivation_avoidance.
C18_PipelineOmitsAvoidance ==
  Called("compute_profile") /\ AllRated(4, {"M2", "M9"}) =>
    /\ outcome.kind = "return"
    /\ "chronotype" \in DOMAIN outcome.result.additional_indices
    /\ "motivation_avoidance" \notin DOMAIN outcome.result.additional_indices

\* C18 amended: on that rating set compute_additional_indices returns
\* chronotype and no motivation_avoidance, while compute_profile rejects
\* the set in validate_ratings with the ValueError naming M2 and M9 and
\* returns no profile.
C18_AvoidanceOmittedBelowValidation ==
  AllRated(4, {"M2", "M9"}) =>
    /\ Called("compute_additional_indices") =>
         /\ outcome.kind = "return"
         /\ DOMAIN outcome.result = {"chronotype"}
    /\ Called("compute_profile") =>
         /\ outcome = Raise("ValueError", "Fehlende Items", <<"M2", "M9">>)
         /\ stages = <<"validate_ratings">>

\* C18 witness: compute_profile has rejected the all-4 set without M2, M9
\* (C18_WitnessIndices: compute_additional_indices has returned on it).
C18_Witness ==
  /\ Called("compute_profile")
  /\ AllRated(4, {"M2", "M9"})
  /\ outcome.kind = "ValueError"
  /\ outcome.codes = <<"M2", "M9">>

C18_WitnessIndices ==
  /\ Called("compute_additional_indices")
  /\ AllRated(4, {"M2", "M9"})
  /\ DOMAIN outcome.result = {"chronotype"}

\* Sums of the raw ratings of the morning and of the evening items.
MorningSum == RawRating("A8") + RawRating("A13") + RawRating("A14") + RawRating("A15")

EveningSum == RawRating("A9") + RawRating("A16")

\* Four times the balance mean(evening) - mean(morning), an integer.
Balance4 == 2 * EveningSum - MorningSum

\* The bucket of a balance b = b4 / 4: b < -0.8, -0.8 <= b < -0.4,
\* -0.4 <= b < 0.4, 0.4 <= b < 0.8, 0.8 <= b.
BalanceBucket(b4) ==
  IF 5 * b4 < 0 - 16 THEN "Deutlicher Morgentyp"
  ELSE IF 5 * b4 < 0 - 8 THEN "Leichter Morgentyp"
  ELSE IF 5 * b4 < 8 THEN "Neutraler/intermediaerer Typ"
  ELSE IF 5 * b4 < 16 THEN "Leichter Abendtyp"
  ELSE "Deutlicher Abendtyp"

\* x / 2 to the nearest integer, an exact half going to the even neighbour.
HalfToEven(x) ==
  IF x % 2 = 0 THEN x \div 2
  ELSE IF ((x - 1) \div 2) % 2 = 0 THEN (x - 1) \div 2 ELSE (x + 1) \div 2

\* C15: for every valid rating set the chronotype index is built from the
\* raw ratings of A8, A13, A14, A15 (morning) and A9, A16 (evening), none
\* reverse-coded: balance = mean(evening) - mean(morning), the
\* interpretation is the bucket of the unrounded balance, and the two
\* tendencies are the means rescaled to 0..100 (to one decimal).
C15_ChronotypeIndex ==
  Returned("compute_profile") =>
    LET c == outcome.result.additional_indices["chronotype"]
    IN /\ c.items = ChronoItems
       /\ c.num_items = 6
       /\ c.balance_score = 25 * Balance4
       /\ c.interpretation = BalanceBucket(Balance4)
       /\ c.morning_tendency = HalfToEven(125 * (MorningSum - 4))
       /\ c.evening_tendency = 125 * (EveningSum - 2)
       /\ c.morning_tendency \in 0..1000
       /\ c.evening_tendency \in 0..1000

\* C15 witness: a valid set with balance -0.75, just above the -0.8 cutoff,
\* has been scored as a mild morning type, with a morning tendency that is
\* rounded at an exact tie.
C15_Witness ==
  /\ Returned("compute_profile")
  /\ Balance4 = 0 - 3
  /\ MorningSum % 2 = 1
  /\ outcome.result.additional_indices["chronotype"].interpretation = "Leichter Morgentyp"

\* The raw ratings of the dict, in dict order, and their squares.
RawValues == [i \in DOMAIN ratings |-> ratings[i].value.v]

RawSquares == [i \in DOMAIN ratings |-> ratings[i].value.v * ratings[i].value.v]

DistinctValues == Cardinality({ratings[i].value.v : i \in DOMAIN ratings})

\* The population variance (divisor n) of the raw ratings is below 0.5:
\* (n * sum(v^2) - sum(v)^2) / n^2 < 1/2.
LowVariance ==
  2 * (Len(ratings) * SumSeq(RawSquares) - SumSeq(RawValues) * SumSeq(RawValues))
    < Len(ratings) * Len(ratings)

\* C19: for every valid rating set the response quality is taken over all
\* 88 raw ratings: the flag is "check" exactly when at most 2 distinct values
\* occur or the population variance is below 0.5, else "ok"; the
\* straight-lining warning is there exactly when at most 2 distinct values
\* occur, the low-variance warning exactly when the variance is below 0.5,
\* warnings is None exactly when the flag is "ok"; a constant rating set
\* gives 1 distinct value, "check" and both warnings.
C19_ResponseQuality ==
  Returned("compute_profile") =>
    LET q == outcome.result.response_quality
    IN /\ Len(ratings) = 88
       /\ q.num_unique_responses = DistinctValues
       /\ q.quality_flag = (IF DistinctValues <= 2 \/ LowVariance THEN "check" ELSE "ok")
       /\ QUALITY_WARN_STRAIGHT \in Range(q.warnings) <=> DistinctValues <= 2
       /\ QUALITY_WARN_LOW_VAR \in Range(q.warnings) <=> LowVariance
       /\ Range(q.warnings) \subseteq {QUALITY_WARN_STRAIGHT, QUALITY_WARN_LOW_VAR}
       /\ q.warnings_is_none <=> q.quality_flag = "ok"
       /\ q.warnings_is_none <=> q.warnings = <<>>
       /\ DistinctValues = 1 =>
            /\ q.num_unique_responses = 1
            /\ q.quality_flag = "check"
            /\ q.warnings = <<QUALITY_WARN_STRAIGHT, QUALITY_WARN_LOW_VAR>>

\* C19 witness: the rating set with 88 times the rating 2 has been scored:
\* 1 distinct value, "check", both warnings.
C19_Witness ==
  /\ Returned("compute_profile")
  /\ AllRated(2, {})
  /\ outcome.result.response_quality.num_unique_responses = 1
  /\ outcome.result.response_quality.quality_flag = "check"
  /\ Len(outcome.result.response_quality.warnings) = 2

\* Further cases of C19 that occur: no warning, straight-lining alone (two
\* distant values), low variance alone (three values close together).
C19_WitnessOk ==
  /\ Returned("compute_profile")
  /\ outcome.result.response_quality.quality_flag = "ok"
  /\ outcome.result.response_quality.warnings_is_none

C19_WitnessStraightOnly ==
  /\ Returned("compute_profile")
  /\ outcome.result.response_quality.warnings = <<QUALITY_WARN_STRAIGHT>>

C19_WitnessLowVarianceOnly ==
  /\ Returned("compute_profile")
  /\ outcome.result.response_quality.warnings = <<QUALITY_WARN_LOW_VAR>>

\* Two dicts hold the same ratings for the same codes (equal as Python
\* dicts), whatever their insertion order.
SameMapping(d1, d2) == Range(d1) = Range(d2)

\* Two outcomes are the same error, or profiles equal in every field but id.
SameButId(o1, o2) ==
  IF o1.kind = "return" /\ o2.kind = "return"
  THEN [o1.result EXCEPT !.id = ""] = [o2.result EXCEPT !.id = ""]
  ELSE o1 = o2

\* The code of the first entry, in insertion order, that is not an integer
\* in 1..5, for a dict with exactly the taxonomy's codes; "" otherwise.
FirstOffending(d) ==
  LET bad == {i \in DOMAIN d : ~IntegerInRange(d[i].value)}
  IN IF {d[i].code : i \in DOMAIN d} = TaxonomyCodes /\ bad # {}
     THEN d[Min(bad)].code
     ELSE ""

SecondCall == Called("compute_profile") /\ earlier.op = "compute_profile"

\* C20 as stated: two calls of compute_profile with equal rating sets give
\* equal outcomes (the same error, or profiles equal in every field but
\* id) whatever the insertion order of the ratings and whatever was called
\* before, and the id field of a profile is the profile_id supplied.
C20_Deterministic ==
  /\ SecondCall /\ SameMapping(earlier.ratings, ratings) =>
       SameButId(earlier.outcome, outcome)
  /\ Returned("compute_profile") => outcome.result.id = profile_id

\* C20 amended: the same, for equal rating sets that have the same first
\* malformed entry in insertion order (none, for a valid set or a set with
\* missing or unknown codes); with several malformed entries the error is
\* the one of the first of them in insertion order.
C20_DeterministicUpToFirstOffending ==
  /\ SecondCall /\ SameMapping(earlier.ratings, ratings)
       /\ FirstOffending(earlier.ratings) = FirstOffending(ratings) =>
       SameButId(earlier.outcome, outcome)
  /\ SecondCall /\ FirstOffending(ratings) # "" =>
       /\ outcome.kind \in {"TypeError", "ValueError"}
       /\ outcome.codes = <<FirstOffending(ratings)>>
  /\ Returned("compute_profile") => outcome.result.id = profile_id

\* C20 witness: a valid rating set was scored twice, the second time with
\* another insertion order and another profile_id, and the two profiles
\* differ in id alone.
C20_Witness ==
  /\ SecondCall
  /\ SameMapping(earlier.ratings, ratings)
  /\ earlier.ratings # ratings
  /\ earlier.profile_id # profile_id
  /\ earlier.outcome.kind = "return"
  /\ outcome.kind = "return"
  /\ outcome.result # earlier.outcome.result
  /\ SameButId(earlier.outcome, outcome)

\* The case the amendment is about: equal rating sets, two malformed
\* entries, and the two calls name different ones.
C20_WitnessOrder ==
  /\ SecondCall
  /\ SameMapping(earlier.ratings, ratings)
  /\ earlier.outcome.codes = <<"A2">>
  /\ outcome.codes = <<"R12">>

\* The rows of the answer file with a code, and the first row whose code
\* occurred in an earlier row (0 if there is none).
CodedRows == {k \in DOMAIN csv_file.rows :
                ~csv_file.rows[k].item_code.none /\ csv_file.rows[k].item_code.text # ""}

RepeatedRows == {k \in CodedRows : \E j \in CodedRows :
                   j < k /\ csv_file.rows[j].item_code.text = csv_file.rows[k].item_code.text}

\* A row the loop accepts when its code is new: known code, rating an
\* integer literal in 1..5; or no code at all.
CleanRow(row) ==
  /\ ~row.item_code.none
  /\ \/ row.item_code.text = ""
     \/ /\ row.item_code.text \in TaxonomyCodes
        /\ ~row.rating.none
        /\ row.rating.text \in {"1", "2", "3", "4", "5", "+3", "03"}

\* C21: load_ratings_from_csv, going through the rows in file order, raises
\* at the first row whose non-empty code occurred in an earlier row (when
\* no earlier row stopped it for another reason); a file with such a row
\* is never loaded, and every returned rating comes from exactly one row.
C21_DuplicateRowRejected ==
  Called("load_ratings_from_csv") =>
    /\ RepeatedRows # {} => Raised(outcome) /\ outcome.result = NoResult
    /\ (/\ RepeatedRows # {}
        /\ csv_file.has_columns
        /\ \A k \in 1..(Min(RepeatedRows) - 1) : CleanRow(csv_file.rows[k])) =>
         /\ outcome.kind = "ValueError"
         /\ outcome.msg = "Doppelter Eintrag fuer Item"
         /\ outcome.codes = <<csv_file.rows[Min(RepeatedRows)].item_code.text>>
         /\ arg.row_num = Min(RepeatedRows) + 1
    /\ outcome.msg = "Doppelter Eintrag fuer Item" => arg.row_num - 1 \in RepeatedRows
    /\ outcome.kind = "return" =>
         \A i \in DOMAIN outcome.result :
           /\ Cardinality({k \in CodedRows :
                 csv_file.rows[k].item_code.text = outcome.result[i].code}) = 1
           /\ \E k \in CodedRows :
                 /\ csv_file.rows[k].item_code.text = outcome.result[i].code
                 /\ ParseInt(csv_file.rows[k].rating.text).v = outcome.result[i].value.v

\* C21 witness: a second row for A2 (with blanks around the code and
\* another rating) was added in front of a complete file, and the loader
\* raised at the file's own A2 row, line 4.
C21_Witness ==
  /\ Called("load_ratings_from_csv")
  /\ csv_file.rows[1] = Row(Cell("A2", TRUE), Cell("3", FALSE))
  /\ Len(csv_file.rows) = 89
  /\ outcome.msg = "Doppelter Eintrag fuer Item"
  /\ outcome.codes = <<"A2">>
  /\ arg.row_num = 4

\* C26: when the row loop and the completeness check of the loader are
\* passed, the accumulated dict holds exactly the 88 taxonomy codes with int
\* values in 1..5, and the closing validate_ratings does not fail: the
\* loader returns that dict.
C26_LoaderValidationRedundant ==
  Called("load_ratings_from_csv") =>
    /\ stages[2] \in {"header", "rows", "complete", "validate", "return"}
    /\ stages[2] # "validate"
    /\ stages[2] = "return" =>
         /\ outcome = Return(ratings)
         /\ Len(ratings) = 88
         /\ {ratings[i].code : i \in DOMAIN ratings} = TaxonomyCodes
         /\ \A i \in DOMAIN ratings :
              ratings[i].value.t = "int" /\ ratings[i].value.v \in 1..5
    /\ Raised(outcome) <=> stages[2] \in {"header", "rows", "complete"}

\* C26 witness: a file whose rows are not in taxonomy order, with a rating
\* written "+3" in blanks, has passed loop, completeness check and
\* validation.
C26_Witness ==
  /\ Called("load_ratings_from_csv")
  /\ stages[2] = "return"
  /\ Len(csv_file.rows) = 88
  /\ \E k \in DOMAIN csv_file.rows : csv_file.rows[k].rating = Cell("+3", TRUE)
  /\ ratings[88].code = "A2"
  /\ ratings[88].value = PyInt(3)

\* C22: a call of validate_ratings or of compute_profile, whether it
\* returns or raises, leaves the caller's rating mapping as it was: same
\* keys in the same order with the same values.
C22_NoSideEffects ==
  [][(pc = "build" /\ pc' = "done" /\ op' \in {"validate_ratings", "compute_profile"})
       => ratings' = ratings]_vars

\* C22 witnesses: validate_ratings has raised on a dict with an unknown
\* key that is still in the dict; compute_profile has returned a profile
\* for a dict the caller had edited.
C22_Witness ==
  /\ Called("validate_ratings")
  /\ Raised(outcome)
  /\ ExtraNow # {}
  /\ edits > 0

C22_WitnessProfile ==
  /\ Returned("compute_profile")
  /\ edits > 0
  /\ Len(ratings) = 88

\* C23: the 8 items outside the main scale are exactly the six chronotype
\* items A8, A13, A14, A15, A9, A16 together with the two avoidance items
\* M2, M9, the two sets being disjoint; in a computed profile the two
\* indices list these items, and no dimension counts or lists any of them:
\* the dimensions' item lists hold the 80 main items and nothing else.
C23_AuxiliaryItemsOutsideDimensions ==
  LET aux == {INDEX_ITEMS_DEFINED[i].code : i \in DOMAIN INDEX_ITEMS_DEFINED}
      chrono == Range(morning_items) \cup Range(evening_items)
      avoid == Range(avoid_items)
  IN Returned("compute_profile") =>
       /\ Cardinality(aux) = 8
       /\ chrono = {"A8", "A13", "A14", "A15", "A9", "A16"}
       /\ avoid = {"M2", "M9"}
       /\ aux = chrono \cup avoid
       /\ chrono \cap avoid = {}
       /\ Range(outcome.result.additional_indices["chronotype"].items) = chrono
       /\ Range(outcome.result.additional_indices["motivation_avoidance"].items) = avoid
       /\ \A dim \in DOMAIN DIMENSION_LABELS :
            LET r == outcome.result.dimensions[dim]
            IN /\ Range(r.items) \cap aux = {}
               /\ r.num_items = Cardinality(Range(r.items))
       /\ UNION {Range(outcome.result.dimensions[dim].items) : dim \in DOMAIN DIMENSION_LABELS}
            = TaxonomyCodes \ aux

\* C23 witness: a profile was computed from ratings where the chronotype
\* item A8, an item with dimension_code attention, is rated unlike the
\* attention items around it.
C23_Witness ==
  /\ Returned("compute_profile")
  /\ Get(ratings, "A8").v # Get(ratings, "A1").v
  /\ Get(ratings, "A8").v # Get(ratings, "A3").v
  /\ ItemDef("A8").dimension_code = "attention"
  /\ outcome.result.dimensions["attention"].num_items < Cardinality({i \in DOMAIN ITEM_DEFINITIONS : ITEM_DEFINITIONS[i].dimension_code = "attention"})

\* The codes rated differently in the dict of the first call and the dict
\* of the second.
Changed == {c \in TaxonomyCodes : Get(earlier.ratings, c) # Get(ratings, c)}

BothReturned == SecondCall /\ earlier.outcome.kind = "return" /\ outcome.kind = "return"

\* C24: when the rating of exactly one item of a valid set is changed, the
\* result of every dimension other than the item's own stays as it was, and
\* the result of every dimension if the item is outside the main scale; the
\* chronotype index stays unless the item is one of its six, the avoidance
\* index unless the item is M2 or M9.
C24_ChangeStaysLocal ==
  BothReturned =>
    \A c \in Changed :
      Changed = {c} =>
        LET before == earlier.outcome.result
            after == outcome.result
        IN /\ \A dim \in DOMAIN DIMENSION_LABELS :
                (dim # ItemDef(c).dimension_code \/ ~ItemDef(c).include_in_main_scale)
                  => after.dimensions[dim] = before.dimensions[dim]
           /\ c \notin Range(ChronoItems)
                => after.additional_indices["chronotype"] = before.additional_indices["chronotype"]
           /\ c \notin {"M2", "M9"}
                => after.additional_indices["motivation_avoidance"]
                     = before.additional_indices["motivation_avoidance"]

\* C24 witnesses: A8 alone was changed, the chronotype index moved and the
\* attention result did not; A1 alone was changed and attention moved.
C24_Witness ==
  /\ BothReturned
  /\ Changed = {"A8"}
  /\ outcome.result.additional_indices["chronotype"]
       # earlier.outcome.result.additional_indices["chronotype"]
  /\ outcome.result.dimensions["attention"] = earlier.outcome.result.dimensions["attention"]

C24_WitnessMain ==
  /\ BothReturned
  /\ Changed = {"A1"}
  /\ outcome.result.dimensions["attention"].score
       # earlier.outcome.result.dimensions["attention"].score

\* C25: when only the rating of one main-scale item differs between two
\* valid sets, the score of its dimension is not lower for the higher rating
\* if the item is not reverse-scored, and not higher if it is.
C25_ScoreMonotone ==
  BothReturned =>
    \A c \in Changed :
      (Changed = {c} /\ ItemDef(c).include_in_main_scale) =>
        LET dim == ItemDef(c).dimension_code
            s1 == earlier.outcome.result.dimensions[dim].score
            s2 == outcome.result.dimensions[dim].score
            up == Get(ratings, c).v > Get(earlier.ratings, c).v
        IN IF up = ItemDef(c).reverse_scored THEN s2 <= s1 ELSE s2 >= s1

\* C25 witnesses: the reverse-scored A2 alone was rated higher and the
\* attention score fell; the plain R12 alone was rated higher and the
\* regulation score rose.
C25_Witness ==
  /\ BothReturned
  /\ Changed = {"A2"}
  /\ Get(ratings, "A2").v > Get(earlier.ratings, "A2").v
  /\ outcome.result.dimensions["attention"].score
       < earlier.outcome.result.dimensions["attention"].score

C25_WitnessPlain ==
  /\ BothReturned
  /\ Changed = {"R12"}
  /\ ~ItemDef("R12").reverse_scored
  /\ Get(ratings, "R12").v > Get(earlier.ratings, "R12").v
  /\ outcome.result.dimensions["regulation"].score
       > earlier.outcome.result.dimensions["regulation"].score

\* The stages the current (or last) call of run_workflow has started, the
\* StageResults they gave (the last ones of self.results), and the number
\* of index writes of the call.
IsStage(e) == e # "index"

StartedNow == SelectSeq(orch.trace, IsStage)

CallResults ==
  SubSeq(orch.results, Len(orch.results) - Len(StartedNow) + 1, Len(orch.results))

IndexWrites == Len(orch.trace) - Len(StartedNow)

KnownWorkflow == orch.pc # "none" /\ orch.workflow \in DOMAIN WORKFLOWS

HasReturned == orch.pc # "none" /\ orch.returned # ""

StageNames(seq) == [i \in DOMAIN seq |-> StageName(seq[i])]

IndexNames == [i \in DOMAIN orch.index.stages |-> orch.index.stages[i].name]

\* C27: run_workflow starts the stages of WORKFLOWS[name] in their order;
\* a stage is started only when every stage before it succeeded, so the
\* first stage with success=False is the last one started; the call returns
\* True exactly when every stage of the workflow ran and succeeded, and
\* False after a failed stage.
C27_StagesInOrderUntilFailure ==
  KnownWorkflow =>
    LET wf == WORKFLOWS[orch.workflow]
        n == Len(StartedNow)
    IN /\ n <= Len(wf)
       /\ StartedNow = SubSeq(wf, 1, n)
       /\ \A i \in 1..n : CallResults[i].stage_name = StageName(wf[i])
       /\ \A i \in 1..(n - 1) : CallResults[i].success
       /\ orch.pc = "running" =>
            /\ \A i \in 1..n : CallResults[i].success
            /\ orch.todo = SubSeq(wf, n + 1, Len(wf))
            /\ n < Len(wf)
       /\ HasReturned =>
            /\ orch.returned = "True" <=> (n = Len(wf) /\ \A i \in 1..n : CallResults[i].success)
            /\ orch.returned = "False" <=> (n >= 1 /\ ~CallResults[n].success)
            /\ orch.returned \in {"True", "False"}

\* C27 witnesses: in 'validate' the stage test failed and validation was
\* never started; in 'full' compute succeeded and visualize failed; 'full'
\* returned True after both stages.
C27_Witness ==
  /\ HasReturned
  /\ orch.workflow = "validate"
  /\ StartedNow = <<"test">>
  /\ orch.returned = "False"

C27_WitnessSecondFails ==
  /\ HasReturned
  /\ orch.workflow = "full"
  /\ StartedNow = <<"compute", "visualize">>
  /\ orch.returned = "False"

C27_WitnessAll ==
  /\ HasReturned
  /\ orch.workflow = "full"
  /\ StartedNow = <<"compute", "visualize">>
  /\ orch.returned = "True"

\* C28: a call of run_workflow with a known name writes the session index
\* exactly once, after the last stage it executed and before it returns, on
\* success and on failure, and not while stages are still to run; a call
\* with an unknown name starts no stage, writes no index and returns False.
C28_IndexOncePerCall ==
  /\ (KnownWorkflow /\ orch.pc = "running") => IndexWrites = 0
  /\ (KnownWorkflow /\ HasReturned) =>
       /\ IndexWrites = 1
       /\ Len(StartedNow) >= 1
       /\ orch.trace = Append(StartedNow, "index")
       /\ Len(orch.index.stages) >= 1
  /\ (HasReturned /\ orch.workflow \notin DOMAIN WORKFLOWS) =>
       /\ orch.trace = <<>>
       /\ orch.returned = "False"
       /\ orch.calls = 1 => orch.index = NoIndex /\ orch.results = <<>>

\* C28 witnesses: the index was written after a failed first stage of
\* 'full'; a call with an unknown name has returned.
C28_Witness ==
  /\ HasReturned
  /\ orch.workflow = "full"
  /\ orch.trace = <<"compute", "index">>
  /\ orch.returned = "False"
  /\ ~orch.index.stages[1].success

C28_WitnessUnknown ==
  /\ HasReturned
  /\ orch.workflow = "unknown"
  /\ orch.returned = "False"
  /\ orch.index = NoIndex

\* C29 as stated: in the workflow 'full', whenever the compute stage ended
\* with exit code 0 having written profil.json into the timestamped
\* directory auswertung.py makes, the orchestrator has recorded the path of
\* that file as profil_json_path, and the visualize stage is started on it:
\* it does not fail with 'profil.json nicht gefunden'.
C29_VisualizeFindsProfile ==
  (/\ orch.pc # "none"
   /\ orch.workflow = "full"
   /\ Len(StartedNow) >= 1
   /\ CallResults[1].success) =>
     /\ orch.profil_json_path # NoPath
     /\ Exists(fs, orch.profil_json_path)
     /\ \A d \in fs.dirs : d.base = "Auswertung" => d.name <= orch.profil_json_path.name
     /\ Len(StartedNow) >= 2 =>
          CallResults[2].error_message
            # "profil.json nicht gefunden (Stage compute fehlgeschlagen?)"

\* C30 as stated: the session index lists exactly the stages the call of
\* run_workflow executed that wrote it, one entry per stage in order, also
\* for a second workflow run from the menu on the same orchestrator.
C30_IndexListsCallStages ==
  (KnownWorkflow /\ HasReturned) => IndexNames = StageNames(StartedNow)

\* C30 amended: the session index lists the stages executed on the
\* orchestrator since its construction, those of earlier run_workflow calls
\* followed by those of the call that wrote it, one entry per stage in
\* execution order with the stage's success; for the first workflow of an
\* orchestrator these are exactly the stages of the call.
C30_IndexListsSessionStages ==
  (KnownWorkflow /\ HasReturned) =>
    /\ IndexNames = StageNames(orch.session)
    /\ Len(orch.results) = Len(orch.session)
    /\ \A i \in DOMAIN orch.index.stages :
         orch.index.stages[i].success = orch.results[i].success
    /\ SubSeq(orch.session, Len(orch.session) - Len(StartedNow) + 1, Len(orch.session))
         = StartedNow
    /\ orch.calls = 1 => IndexNames = StageNames(StartedNow)

\* C30 witness: after 'full' and then 'validate' from the menu the index
\* holds four entries, two of them from the first workflow.
C30_Witness ==
  /\ HasReturned
  /\ orch.mode = "menu"
  /\ orch.calls = 2
  /\ orch.workflow = "validate"
  /\ StartedNow = <<"test", "validation">>
  /\ IndexNames = <<"Profil-Berechnung", "Visualisierung", "Unit-Tests", "Validierung">>

====
